---- MODULE Spec2Model ----
(***************************************************************************)
(* Model of the configuration store of go_config_reader: the Config type,  *)
(* its dot-path resolver (nested.go), its typed getters (getters.go), its  *)
(* setters (setters.go) and the load pipeline (config.go, helpers.go).     *)
(*                                                                         *)
(* A Go string is a sequence of one-character strings, so that             *)
(* strings.Split, strings.Contains, strconv.Atoi, ... are computed on the  *)
(* characters.  A map[string]any is a function from key strings to         *)
(* values; a value of type any is a record [t |-> dynamic type, v |-> ..]. *)
(* A map object reached from both the store and a map that was handed out *)
(* is tracked in the variable held.                                        *)
(***************************************************************************)
EXTENDS Integers, Sequences, FiniteSets, TLC

VARIABLES
    isNil,      \* the receiver c is a nil *Config
    data,       \* c.data, the top-level map (<<>> when c.data is a nil map)
    dataNil,    \* c.data is a nil map (reads succeed, writes panic)
    last,       \* the last completed call: its inputs, results and the content before it
    mu,         \* c.mu, the sync.RWMutex: writer holding, writer waiting, active readers
    wpc,        \* position of the writer goroutine
    wi,         \* index of the path segment the writer's Set is at
    wn,         \* number of Set calls the writer has completed
    rpc,        \* position of each reader goroutine
    rn,         \* number of reads each reader has completed
    rres,       \* the result of each reader's last read
    written,    \* the values whose Set call has returned or is under way
    held,       \* the map a caller or a validation callback was handed, and what it shares
    ini,        \* parseINI at work: its lines, the index of its loop, result and currentMap
    global      \* globalConfig and globalConfigOnce of compatibility.go

vars == <<isNil, data, dataNil, last, mu, wpc, wi, wn, rpc, rn, rres, written, held, ini, global>>
storeVars == <<isNil, data, dataNil, last>>
concVars == <<mu, wpc, wi, wn, rpc, rn, rres, written, held, ini, global>>

-----------------------------------------------------------------------------
(* Values of type any *)

StringV(s) == [t |-> "string", v |-> s]
IntV(n) == [t |-> "int", v |-> n]
Int64V(n) == [t |-> "int64", v |-> n]
\* a float64 is held in tenths: FloatV(25) is 2.5
FloatV(n) == [t |-> "float64", v |-> n]
BoolV(b) == [t |-> "bool", v |-> b]
SliceV(s) == [t |-> "[]string", v |-> s]
\* a []any, as the JSON and YAML decoders build for an array
AnySliceV(s) == [t |-> "[]any", v |-> s]
MapV(m) == [t |-> "map", v |-> m]
NilV == [t |-> "nil", v |-> 0]

EmptyMap == <<>>

-----------------------------------------------------------------------------
(* package strings, strconv, fmt, time *)

Contains(s, ch) == \E i \in 1..Len(s) : s[i] = ch

RECURSIVE Split(_, _)
Split(s, sep) ==
    IF s = <<>> THEN << <<>> >>
    ELSE LET rest == Split(Tail(s), sep)
         IN  IF Head(s) = sep
             THEN << <<>> >> \o rest
             ELSE << <<Head(s)>> \o Head(rest) >> \o Tail(rest)

Digits == <<"0", "1", "2", "3", "4", "5", "6", "7", "8", "9">>

IsDigit(ch) == \E i \in 1..Len(Digits) : Digits[i] = ch

DigitVal(ch) == (CHOOSE i \in 1..Len(Digits) : Digits[i] = ch) - 1

RECURSIVE DigitsVal(_)
DigitsVal(s) ==
    IF s = <<>> THEN 0
    ELSE DigitsVal(SubSeq(s, 1, Len(s) - 1)) * 10 + DigitVal(s[Len(s)])

AllDigits(s) == s # <<>> /\ \A i \in 1..Len(s) : IsDigit(s[i])

\* strconv.Atoi: an optional sign followed by decimal digits
Atoi(s) ==
    LET signed == s # <<>> /\ Head(s) \in {"+", "-"}
        body == IF signed THEN Tail(s) ELSE s
    IN  IF AllDigits(body)
        THEN [ok |-> TRUE,
              n |-> IF signed /\ Head(s) = "-" THEN 0 - DigitsVal(body) ELSE DigitsVal(body)]
        ELSE [ok |-> FALSE, n |-> 0]

RECURSIVE UItoa(_)
UItoa(n) == IF n < 10 THEN <<Digits[n + 1]>> ELSE UItoa(n \div 10) \o <<Digits[(n % 10) + 1]>>

Itoa(n) == IF n < 0 THEN <<"-">> \o UItoa(0 - n) ELSE UItoa(n)

\* a parser that takes true, false, 1 and 0 in any mix of upper and lower case
ParseBoolAnyCase(s) ==
    IF s = <<"1">> \/ ( /\ Len(s) = 4 /\ s[1] \in {"t", "T"} /\ s[2] \in {"r", "R"}
                       /\ s[3] \in {"u", "U"} /\ s[4] \in {"e", "E"} )
    THEN [ok |-> TRUE, b |-> TRUE]
    ELSE IF s = <<"0">> \/ ( /\ Len(s) = 5 /\ s[1] \in {"f", "F"} /\ s[2] \in {"a", "A"}
                            /\ s[3] \in {"l", "L"} /\ s[4] \in {"s", "S"} /\ s[5] \in {"e", "E"} )
    THEN [ok |-> TRUE, b |-> FALSE]
    ELSE [ok |-> FALSE, b |-> FALSE]

\* strconv.ParseBool
ParseBool(s) ==
    IF s \in { <<"1">>, <<"t">>, <<"T">>, <<"T","R","U","E">>, <<"t","r","u","e">>,
               <<"T","r","u","e">> }
    THEN [ok |-> TRUE, b |-> TRUE]
    ELSE IF s \in { <<"0">>, <<"f">>, <<"F">>, <<"F","A","L","S","E">>,
                    <<"f","a","l","s","e">>, <<"F","a","l","s","e">> }
    THEN [ok |-> TRUE, b |-> FALSE]
    ELSE [ok |-> FALSE, b |-> FALSE]

IndexOf(s, ch) == IF Contains(s, ch) THEN CHOOSE i \in 1..Len(s) : s[i] = ch /\ \A j \in 1..(i - 1) : s[j] # ch
                  ELSE 0

\* strconv.ParseFloat on decimal literals sign? digits* [. digits*] with at most one
\* fractional digit; the result is in tenths
ParseFloat(s) ==
    LET signed == s # <<>> /\ Head(s) \in {"+", "-"}
        body == IF signed THEN Tail(s) ELSE s
        dot == IndexOf(body, ".")
        ip == IF dot = 0 THEN body ELSE SubSeq(body, 1, dot - 1)
        fp == IF dot = 0 THEN <<>> ELSE SubSeq(body, dot + 1, Len(body))
        wellFormed == /\ ip \o fp # <<>>
                      /\ \A i \in 1..Len(ip) : IsDigit(ip[i])
                      /\ \A i \in 1..Len(fp) : IsDigit(fp[i])
                      /\ Len(fp) <= 1
        mag == DigitsVal(ip) * 10 + DigitsVal(fp)
    IN  IF wellFormed
        THEN [ok |-> TRUE, f |-> IF signed /\ Head(s) = "-" THEN 0 - mag ELSE mag]
        ELSE [ok |-> FALSE, f |-> 0]

\* int(f) for a float64 f: truncation toward zero
FloatToInt(f) == IF f >= 0 THEN f \div 10 ELSE 0 - ((0 - f) \div 10)

\* float64(n) for an int n
IntToFloat(n) == n * 10

\* the %v verb on a float64 ('g' with the shortest representation)
FormatFloat(f) ==
    LET mag == IF f < 0 THEN 0 - f ELSE f
        sign == IF f < 0 THEN <<"-">> ELSE <<>>
    IN  IF mag % 10 = 0 THEN sign \o UItoa(mag \div 10)
        ELSE sign \o UItoa(mag \div 10) \o <<".">> \o UItoa(mag % 10)

\* time.Second, in nanoseconds
Second == 1000000000

\* a time.Duration is held as a sign, whole seconds and the nanoseconds below a second
Duration(neg, sec, ns) ==
    [neg |-> neg /\ (sec + (ns \div Second) # 0 \/ ns % Second # 0),
     sec |-> sec + (ns \div Second),
     ns |-> ns % Second]

ZeroDuration == Duration(FALSE, 0, 0)

AddDuration(d, e) == Duration(FALSE, d.sec + e.sec, d.ns + e.ns)

\* time.Duration(n) * time.Second
SecondsDuration(n) == IF n < 0 THEN Duration(TRUE, 0 - n, 0) ELSE Duration(FALSE, n, 0)

\* time.Duration(f * float64(time.Second)) for a float64 f
FloatDuration(f) ==
    LET mag == IF f < 0 THEN 0 - f ELSE f
    IN  Duration(f < 0, mag \div 10, (mag % 10) * (Second \div 10))

\* the units of time.ParseDuration: whole seconds, or nanoseconds below a second
UnitOf(u) ==
    CASE u = <<"n","s">> -> [ok |-> TRUE, sec |-> 0, ns |-> 1]
      [] u = <<"u","s">> -> [ok |-> TRUE, sec |-> 0, ns |-> 1000]
      [] u = <<"m","s">> -> [ok |-> TRUE, sec |-> 0, ns |-> 1000000]
      [] u = <<"s">> -> [ok |-> TRUE, sec |-> 1, ns |-> 0]
      [] u = <<"m">> -> [ok |-> TRUE, sec |-> 60, ns |-> 0]
      [] u = <<"h">> -> [ok |-> TRUE, sec |-> 3600, ns |-> 0]
      [] OTHER -> [ok |-> FALSE, sec |-> 0, ns |-> 0]

\* length of the longest prefix of s made of digits
RECURSIVE DigitPrefix(_)
DigitPrefix(s) == IF s # <<>> /\ IsDigit(Head(s)) THEN 1 + DigitPrefix(Tail(s)) ELSE 0

\* length of the longest prefix of s holding neither a digit nor a dot
RECURSIVE UnitPrefix(_)
UnitPrefix(s) == IF s # <<>> /\ ~IsDigit(Head(s)) /\ Head(s) # "." THEN 1 + UnitPrefix(Tail(s)) ELSE 0

RECURSIVE Pow10(_)
Pow10(n) == IF n = 0 THEN 1 ELSE 10 * Pow10(n - 1)

\* ip + fd / 10^fl units, for numbers of at most nine digits
TermDuration(ip, fd, fl, unit) ==
    IF unit.sec > 0
    THEN Duration(FALSE, ip * unit.sec + ((fd * unit.sec) \div Pow10(fl)),
                  ((fd * unit.sec) % Pow10(fl)) * (Second \div Pow10(fl)))
    ELSE Duration(FALSE, ip \div (Second \div unit.ns),
                  (ip % (Second \div unit.ns)) * unit.ns + ((fd * unit.ns) \div Pow10(fl)))

\* the loop of time.ParseDuration over ([0-9]*(\.[0-9]*)?[a-z]+)+
RECURSIVE DurationTerms(_)
DurationTerms(s) ==
    IF s = <<>> THEN [ok |-> TRUE, d |-> ZeroDuration]
    ELSE LET pl == DigitPrefix(s)
             afterInt == SubSeq(s, pl + 1, Len(s))
             hasDot == afterInt # <<>> /\ Head(afterInt) = "."
             afterDot == IF hasDot THEN Tail(afterInt) ELSE afterInt
             fl == IF hasDot THEN DigitPrefix(afterDot) ELSE 0
             afterNum == SubSeq(afterDot, fl + 1, Len(afterDot))
             ul == UnitPrefix(afterNum)
             unit == UnitOf(SubSeq(afterNum, 1, ul))
             rest == DurationTerms(SubSeq(afterNum, ul + 1, Len(afterNum)))
             term == TermDuration(DigitsVal(SubSeq(s, 1, pl)), DigitsVal(SubSeq(afterDot, 1, fl)), fl, unit)
         IN  IF pl + fl = 0 \/ ul = 0 \/ ~unit.ok \/ ~rest.ok
             THEN [ok |-> FALSE, d |-> ZeroDuration]
             ELSE [ok |-> TRUE, d |-> AddDuration(term, rest.d)]

\* time.ParseDuration
ParseDuration(s) ==
    LET signed == s # <<>> /\ Head(s) \in {"+", "-"}
        body == IF signed THEN Tail(s) ELSE s
        terms == DurationTerms(body)
    IN  IF body = <<"0">> THEN [ok |-> TRUE, d |-> ZeroDuration]
        ELSE IF body = <<>> \/ ~terms.ok THEN [ok |-> FALSE, d |-> ZeroDuration]
        ELSE [ok |-> TRUE, d |-> Duration(signed /\ Head(s) = "-", terms.d.sec, terms.d.ns)]

RECURSIVE JoinWith(_, _)
JoinWith(ss, sep) ==
    IF ss = <<>> THEN <<>>
    ELSE IF Len(ss) = 1 THEN ss[1]
    ELSE ss[1] \o sep \o JoinWith(Tail(ss), sep)

\* byte order of the characters that occur in keys
Alphabet == <<".", "0", "1", "2", "3", "4", "5", "6", "7", "8", "9",
              "A", "B", "C", "a", "b", "c", "d", "e", "k", "p", "q", "s", "x", "y", "z">>

Rank(ch) == IF \E i \in 1..Len(Alphabet) : Alphabet[i] = ch
            THEN CHOOSE i \in 1..Len(Alphabet) : Alphabet[i] = ch
            ELSE 0

RECURSIVE StrLess(_, _)
StrLess(s, u) ==
    IF u = <<>> THEN FALSE
    ELSE IF s = <<>> THEN TRUE
    ELSE IF Head(s) = Head(u) THEN StrLess(Tail(s), Tail(u))
    ELSE Rank(Head(s)) < Rank(Head(u))

\* the keys of a set in increasing order, as fmt prints the keys of a map
RECURSIVE SortedKeys(_)
SortedKeys(ks) ==
    IF ks = {} THEN <<>>
    ELSE LET least == CHOOSE k \in ks : \A o \in ks \ {k} : StrLess(k, o)
         IN  <<least>> \o SortedKeys(ks \ {least})

\* fmt.Sprintf("%v", value)
RECURSIVE Sprint(_)
Sprint(value) ==
    CASE value.t = "string" -> value.v
      [] value.t \in {"int", "int64"} -> Itoa(value.v)
      [] value.t = "float64" -> FormatFloat(value.v)
      [] value.t = "bool" -> IF value.v THEN <<"t","r","u","e">> ELSE <<"f","a","l","s","e">>
      [] value.t = "nil" -> <<"<","n","i","l",">">>
      [] value.t = "[]string" -> <<"[">> \o JoinWith(value.v, <<" ">>) \o <<"]">>
      [] value.t = "[]any" ->
            <<"[">> \o JoinWith([i \in 1..Len(value.v) |-> Sprint(value.v[i])], <<" ">>) \o <<"]">>
      [] value.t = "map" ->
            LET ks == SortedKeys(DOMAIN value.v)
            IN  <<"m","a","p","[">>
                \o JoinWith([i \in 1..Len(ks) |-> ks[i] \o <<":">> \o Sprint(value.v[ks[i]])], <<" ">>)
                \o <<"]">>

-----------------------------------------------------------------------------
(* map[string]any *)

MapSet(m, k, value) == [x \in (DOMAIN m) \cup {k} |-> IF x = k THEN value ELSE m[x]]

\* maps.Copy(dst, src)
MapsCopy(dst, src) == [x \in (DOMAIN dst) \cup (DOMAIN src) |-> IF x \in DOMAIN src THEN src[x] ELSE dst[x]]

\* a receiver: a *Config that is nil, or one with its data map
Config(nilRecv, m, nilMap) == [isNil |-> nilRecv, data |-> m, dataNil |-> nilMap]

-----------------------------------------------------------------------------
(* nested.go *)

NotFound == [exists |-> FALSE, value |-> NilV]

RECURSIVE GetPath(_, _)
GetPath(current, parts) ==
    LET part == Head(parts)
    IN  IF Len(parts) = 1
        THEN IF part \in DOMAIN current
             THEN [exists |-> TRUE, value |-> current[part]]
             ELSE NotFound
        ELSE IF part \in DOMAIN current
             THEN IF current[part].t = "map"
                  THEN GetPath(current[part].v, Tail(parts))
                  ELSE NotFound
             ELSE NotFound

getNestedValueUnsafe(c, key) ==
    IF c.isNil THEN NotFound ELSE GetPath(c.data, Split(key, "."))

hasNestedKeyUnsafe(c, key) ==
    IF c.isNil THEN FALSE ELSE getNestedValueUnsafe(c, key).exists

-----------------------------------------------------------------------------
(* setters.go *)

RECURSIVE SetPathFresh(_, _, _)
SetPathFresh(current, parts, value) ==
    IF Len(parts) = 1
    THEN MapSet(current, Head(parts), value)
    ELSE MapSet(current, Head(parts), MapV(SetPathFresh(EmptyMap, Tail(parts), value)))

RECURSIVE SetPath(_, _, _)
SetPath(current, parts, value) ==
    LET part == Head(parts)
        nestedMap == IF part \in DOMAIN current /\ current[part].t = "map"
                     THEN current[part].v
                     ELSE EmptyMap
    IN  IF Len(parts) = 1
        THEN MapSet(current, part, value)
        ELSE MapSet(current, part, MapV(SetPath(nestedMap, Tail(parts), value)))

\* the content of c.data after setNestedValueUnsafe(key, value)
setNestedValueUnsafe(m, key, value) == SetPath(m, Split(key, "."), value)

\* the content of c.data after the body of Set
SetData(m, key, value) ==
    IF Contains(key, ".") THEN setNestedValueUnsafe(m, key, value) ELSE MapSet(m, key, value)

\* one iteration of the loop of SetNestedDefaults and of applyDefaultsUnsafe
ApplyDefault(m, key, value) ==
    IF Contains(key, ".")
    THEN IF ~hasNestedKeyUnsafe(Config(FALSE, m, FALSE), key)
         THEN setNestedValueUnsafe(m, key, value)
         ELSE m
    ELSE IF key \notin DOMAIN m THEN MapSet(m, key, value) ELSE m

\* the loop over the defaults map, its entries visited in the order given
RECURSIVE ApplyDefaultsInOrder(_, _, _)
ApplyDefaultsInOrder(m, defaults, order) ==
    IF order = <<>> THEN m
    ELSE ApplyDefaultsInOrder(ApplyDefault(m, Head(order), defaults[Head(order)]), defaults, Tail(order))

\* the orders in which a range statement can visit the keys of a map
RangeOrders(m) ==
    {o \in [1..Cardinality(DOMAIN m) -> DOMAIN m] : \A i, j \in DOMAIN o : i # j => o[i] # o[j]}

\* an iteration of the loop writes to c.data: it fails on a nil map
DefaultWrites(m, key) ==
    IF Contains(key, ".") THEN ~hasNestedKeyUnsafe(Config(FALSE, m, FALSE), key) ELSE key \notin DOMAIN m

-----------------------------------------------------------------------------
(* getters.go *)

\* the variadic defaultValue parameter is a sequence of zero or more values
DefaultOr(defaultValue, zero) == IF Len(defaultValue) > 0 THEN defaultValue[1] ELSE zero

\* the lookup shared by the getters: the flat key, then the nested path
FlatLookup(c, key) ==
    IF key \in DOMAIN c.data THEN [exists |-> TRUE, value |-> c.data[key]] ELSE NotFound

NestedLookup(c, key) ==
    IF Contains(key, ".") THEN getNestedValueUnsafe(c, key) ELSE NotFound

NoResult == [ok |-> FALSE, r |-> 0]

GetString(c, key, defaultValue) ==
    LET flat == FlatLookup(c, key)
        nested == NestedLookup(c, key)
    IN  IF c.isNil THEN DefaultOr(defaultValue, <<>>)
        ELSE IF flat.exists THEN Sprint(flat.value)
        ELSE IF nested.exists THEN Sprint(nested.value)
        ELSE DefaultOr(defaultValue, <<>>)

\* what a case of a type switch returns with the outcome of a conversion
Returned(parsed, field) == [ok |-> parsed.ok, r |-> parsed[field]]

\* the type switch of GetInt
IntOf(value) ==
    CASE value.t \in {"int", "int64"} -> [ok |-> TRUE, r |-> value.v]
      [] value.t = "float64" -> [ok |-> TRUE, r |-> FloatToInt(value.v)]
      [] value.t = "string" -> Returned(Atoi(value.v), "n")
      [] OTHER -> NoResult

\* the type switch of GetFloat64
FloatOf(value) ==
    CASE value.t = "float64" -> [ok |-> TRUE, r |-> value.v]
      [] value.t \in {"int", "int64"} -> [ok |-> TRUE, r |-> IntToFloat(value.v)]
      [] value.t = "string" -> Returned(ParseFloat(value.v), "f")
      [] OTHER -> NoResult

\* the type switch of GetBool
BoolOf(value) ==
    CASE value.t = "bool" -> [ok |-> TRUE, r |-> value.v]
      [] value.t = "string" -> Returned(ParseBool(value.v), "b")
      [] OTHER -> [ok |-> FALSE, r |-> FALSE]

\* the case string of GetDuration: a duration string, else a number of seconds
StringDuration(parsed, seconds) ==
    IF parsed.ok THEN [ok |-> TRUE, r |-> parsed.d]
    ELSE IF seconds.ok THEN [ok |-> TRUE, r |-> SecondsDuration(seconds.n)]
    ELSE [ok |-> FALSE, r |-> ZeroDuration]

\* the type switch of GetDuration
DurationOf(value) ==
    CASE value.t = "string" -> StringDuration(ParseDuration(value.v), Atoi(value.v))
      [] value.t \in {"int", "int64"} -> [ok |-> TRUE, r |-> SecondsDuration(value.v)]
      [] value.t = "float64" -> [ok |-> TRUE, r |-> FloatDuration(value.v)]
      [] OTHER -> [ok |-> FALSE, r |-> ZeroDuration]

\* a []string result: nil, or the elements
NilSlice == [isNil |-> TRUE, s |-> <<>>]
Slice(s) == [isNil |-> FALSE, s |-> s]

\* the type switch of GetStringSlice
SliceOf(value) ==
    CASE value.t = "[]string" -> [ok |-> TRUE, r |-> Slice(value.v)]
      [] value.t = "[]any" -> [ok |-> TRUE, r |-> Slice([i \in 1..Len(value.v) |-> Sprint(value.v[i])])]
      [] value.t = "string" -> [ok |-> TRUE, r |-> Slice(Split(value.v, ","))]
      [] OTHER -> [ok |-> FALSE, r |-> NilSlice]

\* the body shared by GetInt, GetFloat64, GetBool, GetDuration and GetStringSlice:
\* the type switch on the flat entry, then on the nested one, then the default
TypeSwitch(getter, value) ==
    CASE getter = "GetInt" -> IntOf(value)
      [] getter = "GetFloat64" -> FloatOf(value)
      [] getter = "GetBool" -> BoolOf(value)
      [] getter = "GetDuration" -> DurationOf(value)
      [] getter = "GetStringSlice" -> SliceOf(value)

\* the type switch on each of the entries found, in the order they are looked up
Switched(getter, found) ==
    [i \in DOMAIN found |->
        IF found[i].exists THEN TypeSwitch(getter, found[i].value) ELSE NoResult]

\* the first type switch that returns, else the default
FirstReturn(switched, dflt) ==
    IF switched[1].ok THEN switched[1].r
    ELSE IF switched[2].ok THEN switched[2].r
    ELSE dflt

Coerced(c, key, getter, dflt) ==
    IF c.isNil THEN dflt
    ELSE FirstReturn(Switched(getter, <<FlatLookup(c, key), NestedLookup(c, key)>>), dflt)

GetInt(c, key, defaultValue) == Coerced(c, key, "GetInt", DefaultOr(defaultValue, 0))

GetFloat64(c, key, defaultValue) == Coerced(c, key, "GetFloat64", DefaultOr(defaultValue, 0))

GetBool(c, key, defaultValue) == Coerced(c, key, "GetBool", DefaultOr(defaultValue, FALSE))

GetDuration(c, key, defaultValue) == Coerced(c, key, "GetDuration", DefaultOr(defaultValue, ZeroDuration))

GetStringSlice(c, key, defaultValue) ==
    IF c.isNil THEN DefaultOr(defaultValue, NilSlice)
    ELSE Coerced(c, key, "GetStringSlice", DefaultOr(defaultValue, Slice(<<>>)))

\* a map result: nil, or the entries
NilMapRes == [isNil |-> TRUE, m |-> EmptyMap]
MapRes(m) == [isNil |-> FALSE, m |-> m]

GetNestedMap(c, key) ==
    LET r == getNestedValueUnsafe(c, key)
    IN  IF c.isNil THEN NilMapRes
        ELSE IF r.exists /\ r.value.t = "map" THEN MapRes(r.value.v)
        ELSE NilMapRes

\* the keys GetNestedKeys returns, as a set (their order is the map's range order)
GetNestedKeys(c, prefix) ==
    IF c.isNil THEN {}
    ELSE IF prefix \in DOMAIN c.data /\ c.data[prefix].t = "map"
    THEN {prefix \o <<".">> \o key : key \in DOMAIN c.data[prefix].v}
    ELSE {}

GetAll(c) == IF c.isNil THEN NilMapRes ELSE MapRes(c.data)

-----------------------------------------------------------------------------
(* config.go: the read-only methods *)

HasNestedFirst(c, key) ==
    IF c.isNil THEN FALSE
    ELSE IF Contains(key, ".") THEN hasNestedKeyUnsafe(c, key)
    ELSE key \in DOMAIN c.data

Has(c, key) ==
    IF c.isNil THEN FALSE
    ELSE IF key \in DOMAIN c.data THEN TRUE
    ELSE IF Contains(key, ".") THEN hasNestedKeyUnsafe(c, key)
    ELSE FALSE

\* the keys Keys returns, as a set
Keys(c) == IF c.isNil THEN {} ELSE DOMAIN c.data

Size(c) == IF c.isNil THEN 0 ELSE Cardinality(DOMAIN c.data)

IsEmpty(c) == IF c.isNil THEN TRUE ELSE Size(c) = 0

-----------------------------------------------------------------------------
(* ini_parser.go *)

Whitespace == {" ", "\t", "\n", "\r"}

RECURSIVE TrimLeft(_)
TrimLeft(s) == IF s # <<>> /\ Head(s) \in Whitespace THEN TrimLeft(Tail(s)) ELSE s

RECURSIVE TrimRight(_)
TrimRight(s) ==
    IF s # <<>> /\ s[Len(s)] \in Whitespace THEN TrimRight(SubSeq(s, 1, Len(s) - 1)) ELSE s

TrimSpace(s) == TrimRight(TrimLeft(s))

HasPrefix(s, ch) == s # <<>> /\ Head(s) = ch

HasSuffix(s, ch) == s # <<>> /\ s[Len(s)] = ch

TrimSuffix(s, ch) == IF HasSuffix(s, ch) THEN SubSeq(s, 1, Len(s) - 1) ELSE s

ContainsAny(s, chars) == \E i \in 1..Len(s) : s[i] \in chars

Upper == <<"A","B","C","D","E","F","G","H","I","J","K","L","M",
           "N","O","P","Q","R","S","T","U","V","W","X","Y","Z">>

Lower == <<"a","b","c","d","e","f","g","h","i","j","k","l","m",
           "n","o","p","q","r","s","t","u","v","w","x","y","z">>

LowerChar(ch) ==
    IF \E i \in 1..Len(Upper) : Upper[i] = ch
    THEN Lower[CHOOSE i \in 1..Len(Upper) : Upper[i] = ch]
    ELSE ch

ToLower(s) == [i \in 1..Len(s) |-> LowerChar(s[i])]

\* the characters a section name and a key must not contain
Forbidden == {"[", "]", "#", ";", "="}

\* the NUL byte
NUL == "\\000"

RECURSIVE EscapesFrom(_, _)
EscapesFrom(value, i) ==
    IF i > Len(value) THEN <<>>
    ELSE IF value[i] = "\\" /\ i < Len(value)
    THEN CASE value[i + 1] = "n" -> <<"\n">> \o EscapesFrom(value, i + 2)
           [] value[i + 1] = "t" -> <<"\t">> \o EscapesFrom(value, i + 2)
           [] value[i + 1] = "r" -> <<"\r">> \o EscapesFrom(value, i + 2)
           [] value[i + 1] = "\\" -> <<"\\">> \o EscapesFrom(value, i + 2)
           [] value[i + 1] = "\"" -> <<"\"">> \o EscapesFrom(value, i + 2)
           [] value[i + 1] = "'" -> <<"'">> \o EscapesFrom(value, i + 2)
           [] value[i + 1] = "0" -> <<NUL>> \o EscapesFrom(value, i + 2)
           [] OTHER -> <<value[i]>> \o EscapesFrom(value, i + 1)
    ELSE <<value[i]>> \o EscapesFrom(value, i + 1)

processEscapeSequences(value) ==
    IF ~Contains(value, "\\") THEN value ELSE EscapesFrom(value, 1)

RECURSIVE InlineCommentFrom(_, _, _, _)
InlineCommentFrom(line, i, inQuotes, quoteChar) ==
    IF i > Len(line) THEN line
    ELSE IF line[i] = "\\" /\ i < Len(line)
    THEN InlineCommentFrom(line, i + 2, inQuotes, quoteChar)
    ELSE IF line[i] \in {"\"", "'"} /\ ~inQuotes
    THEN InlineCommentFrom(line, i + 1, TRUE, line[i])
    ELSE IF line[i] = quoteChar /\ inQuotes
    THEN InlineCommentFrom(line, i + 1, FALSE, NUL)
    ELSE IF ~inQuotes /\ line[i] \in {"#", ";"}
    THEN TrimSpace(SubSeq(line, 1, i - 1))
    ELSE InlineCommentFrom(line, i + 1, inQuotes, quoteChar)

removeInlineComments(line) == InlineCommentFrom(line, 1, FALSE, NUL)

\* the width of the native int and of int64, scaled down so that both bounds
\* are values the model can hold
IntBits == 8
Int64Bits == 16

RECURSIVE Pow2(_)
Pow2(n) == IF n = 0 THEN 1 ELSE 2 * Pow2(n - 1)

\* int64(^uint(0) >> 1)
MaxInt == Pow2(IntBits - 1) - 1

MaxInt64 == Pow2(Int64Bits - 1) - 1

\* strconv.ParseInt(value, 10, 64): digits beyond the range are a range error
ParseInt(s) ==
    LET signed == s # <<>> /\ Head(s) \in {"+", "-"}
        body == IF signed THEN Tail(s) ELSE s
        neg == signed /\ Head(s) = "-"
        inRange == /\ Len(body) <= Len(UItoa(MaxInt64))
                   /\ IF neg THEN DigitsVal(body) <= MaxInt64 + 1 ELSE DigitsVal(body) <= MaxInt64
    IN  IF AllDigits(body) /\ inRange
        THEN [ok |-> TRUE, n |-> IF neg THEN 0 - DigitsVal(body) ELSE DigitsVal(body)]
        ELSE [ok |-> FALSE, n |-> 0]

\* the non-empty trimmed parts of a comma-separated value, escape sequences processed
RECURSIVE ListParts(_)
ListParts(parts) ==
    IF parts = <<>> THEN <<>>
    ELSE LET trimmed == TrimSpace(Head(parts))
         IN  IF trimmed # <<>>
             THEN <<processEscapeSequences(trimmed)>> \o ListParts(Tail(parts))
             ELSE ListParts(Tail(parts))

\* the classification with the integer rule tried before the boolean words
processINIValueIntFirst(value) ==
    IF ParseInt(value).ok THEN IntV(ParseInt(value).n) ELSE StringV(value)

processINIValue(value) ==
    LET quoted == /\ Len(value) >= 2
                  /\ \/ value[1] = "\"" /\ value[Len(value)] = "\""
                     \/ value[1] = "'" /\ value[Len(value)] = "'"
        lowerValue == ToLower(value)
        intVal == ParseInt(value)
        floatVal == ParseFloat(value)
        result == ListParts(Split(value, ","))
    IN  IF value = <<>> THEN StringV(<<>>)
        ELSE IF quoted THEN StringV(processEscapeSequences(SubSeq(value, 2, Len(value) - 1)))
        ELSE IF lowerValue \in {<<"t","r","u","e">>, <<"y","e","s">>, <<"o","n">>, <<"1">>}
        THEN BoolV(TRUE)
        ELSE IF lowerValue \in {<<"f","a","l","s","e">>, <<"n","o">>, <<"o","f","f">>, <<"0">>}
        THEN BoolV(FALSE)
        ELSE IF intVal.ok
        THEN IF intVal.n >= MaxInt \/ intVal.n <= (0 - MaxInt) - 1
             THEN Int64V(intVal.n)
             ELSE IntV(intVal.n)
        ELSE IF floatVal.ok THEN FloatV(floatVal.f)
        ELSE IF Contains(value, ",") /\ Len(result) > 1 THEN SliceV(result)
        ELSE StringV(processEscapeSequences(value))

\* a join that puts no space between the line and the next one
RECURSIVE ContinuedNoSpace(_, _, _)
ContinuedNoSpace(lines, i, line) ==
    IF HasSuffix(TrimSpace(line), "\\") /\ i + 1 <= Len(lines)
    THEN ContinuedNoSpace(lines, i + 1,
                          TrimSpace(TrimSuffix(TrimSpace(line), "\\")) \o TrimSpace(lines[i + 1]))
    ELSE line

\* the inner loop of parseINI, which joins a line ending in a backslash with the
\* lines after it; i is the index of the last line joined
RECURSIVE Continued(_, _, _)
Continued(lines, i, line) ==
    IF HasSuffix(TrimSpace(line), "\\") /\ i + 1 <= Len(lines)
    THEN LET stripped == TrimSpace(TrimSuffix(TrimSpace(line), "\\"))
             nextLine == TrimSpace(lines[i + 1])
             joined == IF nextLine # <<>>
                       THEN IF stripped # <<>> THEN stripped \o <<" ">> \o nextLine ELSE nextLine
                       ELSE stripped
         IN  Continued(lines, i + 1, joined)
    ELSE line

\* strings.Cut(s, "=")
Cut(s, sep) ==
    LET at == IndexOf(s, sep)
    IN  IF at = 0 THEN [before |-> s, after |-> <<>>, found |-> FALSE]
        ELSE [before |-> SubSeq(s, 1, at - 1), after |-> SubSeq(s, at + 1, Len(s)), found |-> TRUE]

\* currentMap points at the root map, at the map of a section, or is nil
RootTarget == [kind |-> "root", name |-> <<>>]
SectionTarget(name) == [kind |-> "section", name |-> name]
NilTarget == [kind |-> "nil", name |-> <<>>]

\* a store that takes a nil currentMap for the root map
StoreINIAtRoot(result, currentMap, key, value) ==
    CASE currentMap.kind = "section" ->
            MapSet(result, currentMap.name, MapV(MapSet(result[currentMap.name].v, key, value)))
      [] OTHER -> MapSet(result, key, value)

\* currentMap[key] = processedValue, unless currentMap is nil
StoreINI(result, currentMap, key, value) ==
    CASE currentMap.kind = "root" -> MapSet(result, key, value)
      [] currentMap.kind = "section" ->
            MapSet(result, currentMap.name, MapV(MapSet(result[currentMap.name].v, key, value)))
      [] OTHER -> result

\* one iteration of the outer loop of parseINI, on the line with index i
ParseLine(lines, i, st) ==
    LET line == TrimSpace(Continued(lines, i, lines[i]))
        sectionName == TrimSpace(SubSeq(line, 2, Len(line) - 1))
        processedLine == removeInlineComments(line)
        cut == Cut(processedLine, "=")
        key == TrimSpace(cut.before)
        value == TrimSpace(cut.after)
    IN  IF line = <<>> \/ HasPrefix(line, "#") \/ HasPrefix(line, ";") THEN st
        ELSE IF HasPrefix(line, "[") /\ HasSuffix(line, "]")
        THEN IF sectionName = <<>> THEN st
             ELSE IF ContainsAny(sectionName, Forbidden)
             THEN [st EXCEPT !.currentMap = NilTarget]
             ELSE [result |-> IF sectionName \in DOMAIN st.result /\ st.result[sectionName].t = "map"
                              THEN st.result
                              ELSE MapSet(st.result, sectionName, MapV(EmptyMap)),
                   currentMap |-> SectionTarget(sectionName)]
        ELSE IF processedLine = <<>> THEN st
        ELSE IF ~cut.found THEN st
        ELSE IF key = <<>> \/ ContainsAny(key, Forbidden) THEN st
        ELSE [st EXCEPT !.result = StoreINI(st.result, st.currentMap, key, processINIValue(value))]

RECURSIVE ParseLines(_, _, _)
ParseLines(lines, i, st) ==
    IF i > Len(lines) THEN st ELSE ParseLines(lines, i + 1, ParseLine(lines, i, st))

parseINI(content) ==
    ParseLines(Split(content, "\n"), 1, [result |-> EmptyMap, currentMap |-> RootTarget]).result

-----------------------------------------------------------------------------
(* helpers.go and the load pipeline of config.go *)

\* os.Getenv: the content of the variable, or "" when it is not set
Getenv(env, name) == IF name \in DOMAIN env THEN env[name] ELSE <<>>

\* the overlay without the test on the content of the variable
loadFromEnvironmentAlways(m, env) ==
    [key \in DOMAIN m |-> IF key \in DOMAIN env THEN StringV(env[key]) ELSE m[key]]

\* the overlay ranging over the environment, which inserts the variables it meets
loadFromEnvironmentAdding(m, env) ==
    [key \in DOMAIN m \cup {name \in DOMAIN env : env[name] # <<>>} |->
        IF Getenv(env, key) # <<>> THEN StringV(Getenv(env, key)) ELSE m[key]]

\* the content of c.data after loadFromEnvironmentUnsafe
loadFromEnvironmentUnsafe(m, env) ==
    [key \in DOMAIN m |-> IF Getenv(env, key) # <<>> THEN StringV(Getenv(env, key)) ELSE m[key]]

\* the index of the first required key that is missing, or 0
RECURSIVE FirstMissing(_, _, _)
FirstMissing(c, requiredKeys, i) ==
    IF i > Len(requiredKeys) THEN 0
    ELSE IF requiredKeys[i] \in DOMAIN c.data THEN FirstMissing(c, requiredKeys, i + 1)
    ELSE IF Contains(requiredKeys[i], ".") /\ hasNestedKeyUnsafe(c, requiredKeys[i])
    THEN FirstMissing(c, requiredKeys, i + 1)
    ELSE i

validateRequiredKeysUnsafe(c, requiredKeys) ==
    LET missing == FirstMissing(c, requiredKeys, 1)
    IN  IF c.isNil THEN [err |-> "ErrConfigNil", key |-> <<>>]
        ELSE IF missing = 0 THEN [err |-> "nil", key |-> <<>>]
        ELSE [err |-> "ErrRequiredKeyMissing", key |-> requiredKeys[missing]]

FormatINI == 0
FormatJSON == 1
FormatYAML == 2

\* the index of the dot that starts filepath.Ext(path), or 0
RECURSIVE ExtStart(_, _)
ExtStart(path, i) ==
    IF i = 0 THEN 0
    ELSE IF path[i] = "/" THEN 0
    ELSE IF path[i] = "." THEN i
    ELSE ExtStart(path, i - 1)

Ext(path) ==
    LET at == ExtStart(path, Len(path))
    IN  IF at = 0 THEN <<>> ELSE SubSeq(path, at, Len(path))

\* the format LoadFromFile decodes with
DetectFormat(optsFormat, filePath) ==
    LET ext == ToLower(Ext(filePath))
    IN  IF optsFormat = 0
        THEN CASE ext = <<".","j","s","o","n">> -> FormatJSON
               [] ext \in {<<".","y","a","m","l">>, <<".","y","m","l">>} -> FormatYAML
               [] OTHER -> FormatINI
        ELSE optsFormat

\* the outcome of a decoder: an error, or configData (which may stay a nil map)
DecodeError == [err |-> TRUE, isNil |-> TRUE, m |-> EmptyMap]
Decoded(m) == [err |-> FALSE, isNil |-> FALSE, m |-> m]
DecodedNil == [err |-> FALSE, isNil |-> TRUE, m |-> EmptyMap]

\* the switch on the format with the errors of the decoders dropped: configData
\* is what the decoder left in it
ParseUnchecked(format, file) ==
    CASE format = FormatJSON -> [status |-> "ok", out |-> [file.json EXCEPT !.err = FALSE]]
      [] format = FormatYAML -> [status |-> "ok", out |-> [file.yaml EXCEPT !.err = FALSE]]
      [] format = FormatINI -> [status |-> "ok", out |-> Decoded(parseINI(file.content))]
      [] OTHER -> [status |-> "ErrInvalidFormat", out |-> DecodeError]

\* the switch on the format: json.Unmarshal and yaml.Unmarshal are given by what
\* they return on the file's content, parseINI is computed on the content
Parse(format, file) ==
    CASE format = FormatJSON -> [status |-> IF file.json.err THEN "ParseError" ELSE "ok", out |-> file.json]
      [] format = FormatYAML -> [status |-> IF file.yaml.err THEN "ParseError" ELSE "ok", out |-> file.yaml]
      [] format = FormatINI -> [status |-> "ok", out |-> Decoded(parseINI(file.content))]
      [] OTHER -> [status |-> "ErrInvalidFormat", out |-> DecodeError]

\* c.data = configData
ReplaceDataMerging(old, new) == MapsCopy(old, new)
ReplaceData(old, new) == new

\* the statements of LoadFromFile that run once the lock is held, the defaults
\* visited in the order given
Locked(pre, configData, opts, env, order) ==
    LET replaced == ReplaceData(pre, configData.m)
        panics == configData.isNil /\ order # <<>>
        afterDefaults == IF panics THEN replaced
                         ELSE ApplyDefaultsInOrder(replaced, opts.DefaultValues, order)
        merged == IF opts.IgnoreEnv THEN afterDefaults
                  ELSE loadFromEnvironmentUnsafe(afterDefaults, env)
        required == validateRequiredKeysUnsafe(Config(FALSE, merged, FALSE), opts.RequiredKeys)
        validated == required.err = "nil" /\ opts.ValidationFunc # "nil"
    IN  [status |-> IF panics THEN "panic"
                    ELSE IF required.err # "nil" THEN required.err
                    ELSE IF validated /\ opts.ValidationFunc = "reject" THEN "ValidationFailed"
                    ELSE "ok",
         errKey |-> IF panics THEN <<>> ELSE required.key,
         data |-> IF panics THEN replaced ELSE merged,
         dataNil |-> configData.isNil,
         parsed |-> replaced,
         afterDefaults |-> afterDefaults,
         merged |-> IF panics THEN replaced ELSE merged,
         validated |-> ~panics /\ validated]

\* the outcome of LoadFromFile: its error, and c.data when it returns
LoadOutcome(c, file, opts, env, order) ==
    LET format == DetectFormat(opts.Format, file.path)
        parse == Parse(format, file)
        unchanged == [errKey |-> <<>>, data |-> c.data, dataNil |-> c.dataNil,
                      parsed |-> EmptyMap, afterDefaults |-> EmptyMap, merged |-> EmptyMap,
                      validated |-> FALSE]
    IN  IF ~file.exists THEN [status |-> "ErrFileNotFound"] @@ unchanged
        ELSE IF ~file.readable THEN [status |-> "ReadError"] @@ unchanged
        ELSE IF parse.status # "ok" THEN [status |-> parse.status] @@ unchanged
        ELSE IF c.isNil THEN [status |-> "panic"] @@ unchanged
        ELSE Locked(c.data, parse.out, opts, env, order)

\* the load gets as far as the lock: the file is there, is read and is decoded
Decodes(call) ==
    /\ call.file.exists
    /\ call.file.readable
    /\ Parse(DetectFormat(call.opts.Format, call.file.path), call.file).status = "ok"

\* the tree the load builds from the file alone: the decoded content, then the
\* defaults, then the environment
MergedTree(call) ==
    Locked(EmptyMap, Parse(DetectFormat(call.opts.Format, call.file.path), call.file).out,
           call.opts, call.env, call.order).merged

\* what a read of key finds in the tree m: the flat entry, else the nested one
Lookup(m, key) ==
    IF FlatLookup(Config(FALSE, m, FALSE), key).exists
    THEN FlatLookup(Config(FALSE, m, FALSE), key)
    ELSE NestedLookup(Config(FALSE, m, FALSE), key)

-----------------------------------------------------------------------------
(* The calls made on the store, and the inputs they are made with *)

Ka == <<"a">>
Kab == <<"a", ".", "b">>
Kabc == <<"a", ".", "b", ".", "c">>
Kb == <<"b">>
Kc == <<"c">>

SetKeys == {Ka, Kab, Kabc}
QueryKeys == {Ka, Kab}

\* the keys Has, GetNestedMap and GetNestedKeys are called with
ReaderKeys == {Ka, Kab, Kabc}

Sx == <<"x">>

\* one value of each native type
Values == {StringV(Sx), IntV(7), FloatV(25), BoolV(TRUE), SliceV(<< <<"p">>, <<"q">> >>)}

\* the maps given to LoadFromMap: a literal key "a.b", alone and next to "a", and a
\* nested map with two entries
SourceMaps ==
    { Kab :> StringV(Sx),
      Kab :> IntV(7) @@ Ka :> StringV(Sx),
      Ka :> MapV(Kb :> BoolV(TRUE) @@ Kc :> IntV(7)) }

\* the maps of default values; a nil map and an empty one behave alike
DefaultMaps ==
    { EmptyMap,
      Kab :> IntV(7),
      Ka :> MapV(Kc :> BoolV(TRUE)) @@ Kab :> IntV(7) }

\* the environment: the variables that are set, with their content
NoEnv == EmptyMap
Environments == {NoEnv, Ka :> <<"e">> @@ Kb :> <<"f">>, Ka :> <<>>}

RequiredKeyLists == {<<>>, <<Ka, Kab>>}

\* a validation callback is absent, or returns nil, or returns an error
ValidationFuncs == {"nil", "accept", "reject"}

ZeroOptions ==
    [Format |-> 0, IgnoreEnv |-> FALSE, RequiredKeys |-> <<>>, DefaultValues |-> EmptyMap,
     ValidationFunc |-> "nil"]

\* Format values: the three supported formats and an unsupported one
Formats == {FormatINI, FormatJSON, FormatYAML, FormatYAML + 1}

File(path, exists, readable, content, json, yaml) ==
    [path |-> path, exists |-> exists, readable |-> readable, content |-> content,
     json |-> json, yaml |-> yaml]

\* c.json holds {"a":"x"}
FileJSON ==
    File(<<"c", ".", "j", "s", "o", "n">>, TRUE, TRUE,
         <<"{", "\"", "a", "\"", ":", "\"", "x", "\"", "}">>,
         Decoded(Ka :> StringV(Sx)), Decoded(Ka :> StringV(Sx)))

\* e.json holds {}
FileEmpty ==
    File(<<"e", ".", "j", "s", "o", "n">>, TRUE, TRUE, <<"{", "}">>,
         Decoded(EmptyMap), Decoded(EmptyMap))

\* n.JSON holds null, which both decoders accept and which leaves configData nil
FileNull ==
    File(<<"n", ".", "J", "S", "O", "N">>, TRUE, TRUE, <<"n", "u", "l", "l">>,
         DecodedNil, DecodedNil)

\* b.json holds {, which no decoder accepts
FileBad ==
    File(<<"b", ".", "j", "s", "o", "n">>, TRUE, TRUE, <<"{">>, DecodeError, DecodeError)

\* c.ini holds a section a with the key b
FileINI ==
    File(<<"c", ".", "i", "n", "i">>, TRUE, TRUE,
         <<"[", "a", "]", "\n", "b", "=", "x">>, DecodeError, DecodeError)

\* c.yml holds a mapping a with the key b
FileYAML ==
    File(<<"c", ".", "y", "m", "l">>, TRUE, TRUE,
         <<"a", ":", "\n", " ", "b", ":", " ", "7">>,
         DecodeError, Decoded(Ka :> MapV(Kb :> IntV(7))))

\* d.json is a directory: it exists and cannot be read
FileDir == File(<<"d", ".", "j", "s", "o", "n">>, TRUE, FALSE, <<>>, DecodeError, DecodeError)

\* m.json does not exist
FileMissing == File(<<"m", ".", "j", "s", "o", "n">>, FALSE, FALSE, <<>>, DecodeError, DecodeError)

Files == {FileJSON, FileEmpty, FileNull, FileBad, FileINI, FileYAML, FileDir, FileMissing}

\* the loads: every file under every format the caller writes in the options
\* (given) and under options that name no format; a file with a key and an empty one
\* under every combination of the remaining options and environments; the empty file
\* and the file that decodes to a nil map under every map of defaults and every list
\* of required keys
LoadCases ==
    {[file |-> f, opts |-> [ZeroOptions EXCEPT !.Format = fmt], env |-> NoEnv, given |-> TRUE] :
        f \in Files, fmt \in Formats}
    \cup
    {[file |-> f, opts |-> ZeroOptions, env |-> NoEnv, given |-> FALSE] : f \in Files}
    \cup
    {[file |-> f,
      opts |-> [Format |-> 0, IgnoreEnv |-> ig, RequiredKeys |-> r, DefaultValues |-> d,
                ValidationFunc |-> vf],
      env |-> e, given |-> FALSE] :
        f \in {FileJSON, FileEmpty}, ig \in BOOLEAN, r \in RequiredKeyLists,
        d \in DefaultMaps, vf \in ValidationFuncs, e \in Environments}
    \cup
    {[file |-> f, opts |-> [ZeroOptions EXCEPT !.DefaultValues = d, !.RequiredKeys = r],
      env |-> NoEnv, given |-> FALSE] :
        f \in {FileEmpty, FileNull}, d \in DefaultMaps, r \in RequiredKeyLists}

\* the record of a call: what it was given and what it returned
Call(op) ==
    [op |-> op, status |-> "ok", errKey |-> <<>>, key |-> <<>>, value |-> NilV,
     arg |-> EmptyMap, order |-> <<>>,
     file |-> FileMissing, opts |-> ZeroOptions, env |-> NoEnv,
     parsed |-> EmptyMap, afterDefaults |-> EmptyMap, merged |-> EmptyMap,
     validated |-> FALSE, default |-> <<>>, res |-> NilV, preKeys |-> {},
     overwrote |-> {}, given |-> FALSE]

Receiver == Config(isNil, data, dataNil)

-----------------------------------------------------------------------------
(* The methods of Config as steps *)

\* the paths above key that hold a value that is not a map
NonMapsAbove(m, key) ==
    LET parts == Split(key, ".")
    IN  {i \in 1..(Len(parts) - 1) :
            /\ GetPath(m, SubSeq(parts, 1, i)).exists
            /\ GetPath(m, SubSeq(parts, 1, i)).value.t # "map"}

Set(key, value) ==
    /\ data' = IF isNil \/ dataNil THEN data ELSE SetData(data, key, value)
    /\ last' = [Call("Set") EXCEPT !.key = key, !.value = value,
                                   !.status = IF ~isNil /\ dataNil THEN "panic" ELSE "ok",
                                   !.overwrote = NonMapsAbove(data, key)]
    /\ UNCHANGED <<isNil, dataNil>>

SetNestedDefaults(defaults, order) ==
    LET returns == isNil \/ order = <<>>
    IN  /\ data' = IF returns \/ dataNil THEN data ELSE ApplyDefaultsInOrder(data, defaults, order)
        /\ last' = [Call("SetNestedDefaults") EXCEPT !.arg = defaults, !.order = order,
                        !.status = IF ~returns /\ dataNil THEN "panic" ELSE "ok"]
        /\ UNCHANGED <<isNil, dataNil>>

LoadFromMap(m) ==
    LET panics == isNil \/ (dataNil /\ m # EmptyMap)
    IN  /\ data' = IF panics THEN data ELSE MapsCopy(data, m)
        /\ last' = [Call("LoadFromMap") EXCEPT !.arg = m,
                        !.status = IF panics THEN "panic" ELSE "ok"]
        /\ UNCHANGED <<isNil, dataNil>>

Clear ==
    /\ data' = IF isNil THEN data ELSE EmptyMap
    /\ dataNil' = IF isNil THEN dataNil ELSE FALSE
    /\ last' = [Call("Clear") EXCEPT !.status = IF isNil THEN "panic" ELSE "ok"]
    /\ UNCHANGED isNil

LoadFromFile(load, order) ==
    \E out \in {LoadOutcome(Receiver, load.file, load.opts, load.env, order)} :
        /\ data' = out.data
        /\ dataNil' = out.dataNil
        /\ last' = [Call("LoadFromFile") EXCEPT
                        !.file = load.file, !.opts = load.opts, !.env = load.env,
                        !.arg = load.opts.DefaultValues, !.order = order,
                        !.status = out.status, !.errKey = out.errKey,
                        !.parsed = out.parsed, !.afterDefaults = out.afterDefaults,
                        !.merged = out.merged, !.validated = out.validated,
                        !.preKeys = DOMAIN data, !.given = load.given]
        /\ UNCHANGED isNil

\* the lines String writes, in the order its range statement visits the keys
String(c) ==
    IF c.isNil THEN {<<"Config is nil">>}
    ELSE {key \o <<":", " ">> \o Sprint(c.data[key]) \o <<"\n">> : key \in DOMAIN c.data}

Getters == {"GetString", "GetInt", "GetFloat64", "GetBool", "GetDuration", "GetStringSlice"}
KeyedReaders == {"Has", "GetNestedMap", "GetNestedKeys"}
Readers == {"Keys", "Size", "IsEmpty", "GetAll", "String"}

\* the default value a getter is called with, when it is called with one
DefaultFor(op) ==
    CASE op = "GetString" -> <<"d">>
      [] op = "GetInt" -> 3
      [] op = "GetFloat64" -> 15
      [] op = "GetBool" -> TRUE
      [] op = "GetDuration" -> SecondsDuration(5)
      [] op = "GetStringSlice" -> Slice(<< <<"d">> >>)

Result(c, op, key, defaultValue) ==
    CASE op = "GetString" -> GetString(c, key, defaultValue)
      [] op = "GetInt" -> GetInt(c, key, defaultValue)
      [] op = "GetFloat64" -> GetFloat64(c, key, defaultValue)
      [] op = "GetBool" -> GetBool(c, key, defaultValue)
      [] op = "GetDuration" -> GetDuration(c, key, defaultValue)
      [] op = "GetStringSlice" -> GetStringSlice(c, key, defaultValue)
      [] op = "Has" -> Has(c, key)
      [] op = "GetNestedMap" -> GetNestedMap(c, key)
      [] op = "GetNestedKeys" -> GetNestedKeys(c, key)
      [] op = "Keys" -> Keys(c)
      [] op = "Size" -> Size(c)
      [] op = "IsEmpty" -> IsEmpty(c)
      [] op = "GetAll" -> GetAll(c)
      [] op = "String" -> String(c)

\* a call of a read-only method
Query(op, key, defaultValue) ==
    /\ last' = [Call(op) EXCEPT !.key = key, !.default = defaultValue,
                                !.res = Result(Receiver, op, key, defaultValue)]
    /\ UNCHANGED <<isNil, data, dataNil>>

New == Call("New")

Idle == [writer |-> FALSE, waiting |-> FALSE, readers |-> {}]

\* var globalConfig *Config; var globalConfigOnce sync.Once: no instance yet
\* (config 0 is the nil pointer), the Once not done and its mutex free
NoGlobal == [config |-> 0, done |-> FALSE, m |-> 0, built |-> 0]

\* parseINI is not at work
NoParse == [lines |-> <<>>, i |-> 1, st |-> [result |-> EmptyMap, currentMap |-> RootTarget]]

\* no map has been handed out
NoCopy == [taken |-> FALSE, by |-> "", at |-> <<>>, m |-> <<>>, shared |-> {}]

StoreInit ==
    /\ isNil \in BOOLEAN
    /\ data = EmptyMap
    /\ dataNil = FALSE
    /\ last = New

Init ==
    /\ StoreInit
    /\ mu = Idle
    /\ wpc = "done" /\ wi = 0 /\ wn = 0
    /\ rpc = <<>> /\ rn = <<>> /\ rres = <<>>
    /\ written = {}
    /\ held = NoCopy
    /\ ini = NoParse
    /\ global = NoGlobal

\* the store used through its setters and read-only methods
Next ==
    \/ \E key \in SetKeys, value \in Values : Set(key, value) /\ UNCHANGED concVars
    \/ \E defaults \in DefaultMaps : \E order \in RangeOrders(defaults) :
            SetNestedDefaults(defaults, order) /\ UNCHANGED concVars
    \/ \E m \in SourceMaps : LoadFromMap(m) /\ UNCHANGED concVars
    \/ Clear /\ UNCHANGED concVars
    \/ \E op \in Getters, key \in QueryKeys : \E defaultValue \in {<<>>, <<DefaultFor(op)>>} :
            Query(op, key, defaultValue) /\ UNCHANGED concVars
    \/ \E op \in KeyedReaders, key \in ReaderKeys : Query(op, key, <<>>) /\ UNCHANGED concVars
    \/ \E op \in Readers : Query(op, <<>>, <<>>) /\ UNCHANGED concVars

Spec == Init /\ [][Next]_vars

\* the store loaded from files, again and again
LoadNext ==
    \/ \E load \in LoadCases : \E order \in RangeOrders(load.opts.DefaultValues) :
            LoadFromFile(load, order) /\ UNCHANGED concVars
    \/ \E defaults \in DefaultMaps : \E order \in RangeOrders(defaults) :
            SetNestedDefaults(defaults, order) /\ UNCHANGED concVars
    \/ Clear /\ UNCHANGED concVars

LoadSpec == Init /\ [][LoadNext]_vars

-----------------------------------------------------------------------------
(* One goroutine that calls Set again and again and goroutines that call GetInt
   and Has, all on the key last.key of one constructed store, under c.mu *)

NumSets == 2
NumReaders == 2
NumReads == 2

Threads == 1..NumReaders

\* the content of a map after the iterations of the loop of setNestedValueUnsafe
\* that visit the intermediate parts given
RECURSIVE Navigate(_, _)
Navigate(current, parts) ==
    IF parts = <<>> THEN current
    ELSE LET part == Head(parts)
             nestedMap == IF part \in DOMAIN current /\ current[part].t = "map"
                          THEN current[part].v
                          ELSE EmptyMap
         IN  MapSet(current, part, MapV(Navigate(nestedMap, Tail(parts))))

\* the parts Set walks: those of a dotted key, or the flat key alone
SetParts(key) == IF Contains(key, ".") THEN Split(key, ".") ELSE <<key>>

\* c.data after the iteration n of the walk of Set(key, value)
SetStep(m, key, value, n) ==
    IF n = Len(SetParts(key)) THEN SetData(m, key, value)
    ELSE Navigate(m, SubSeq(SetParts(key), 1, n))

\* sync.RWMutex: RLock returns when no writer holds the lock and none waits for it
RLockAlways(m) == TRUE
RLockReturns(m) == ~m.writer /\ ~m.waiting

\* sync.RWMutex: Lock returns when the readers that hold the lock have left
LockReturns(m) == ~m.writer /\ m.readers = {}

\* Set calls c.mu.Lock(): the readers that come from now on wait
SetLock ==
    /\ wpc = "idle"
    /\ wi < NumSets
    /\ mu' = [mu EXCEPT !.waiting = TRUE]
    /\ wpc' = "lock"
    /\ UNCHANGED <<wi, wn, rpc, rn, rres, written>>
    /\ UNCHANGED storeVars
    /\ UNCHANGED <<held, ini, global>>

\* c.mu.Lock() returns
SetLocked ==
    /\ wpc = "lock"
    /\ LockReturns(mu)
    /\ mu' = [mu EXCEPT !.waiting = FALSE, !.writer = TRUE]
    /\ wpc' = "write"
    /\ wn' = 1
    /\ UNCHANGED <<wi, rpc, rn, rres, written>>
    /\ UNCHANGED storeVars
    /\ UNCHANGED <<held, ini, global>>

\* one iteration of the walk: an intermediate map is entered or made, or the value
\* is stored; the writer stores wi + 1 in its call wi
SetWrite ==
    /\ wpc = "write"
    /\ data' = SetStep(data, last.key, IntV(wi + 1), wn)
    /\ IF wn = Len(SetParts(last.key))
       THEN /\ wpc' = "unlock"
            /\ written' = written \cup {wi + 1}
            /\ wn' = 0
       ELSE /\ wn' = wn + 1
            /\ UNCHANGED <<wpc, written>>
    /\ UNCHANGED <<mu, wi, rpc, rn, rres>>
    /\ UNCHANGED <<isNil, dataNil, last, held, ini, global>>

\* the deferred c.mu.Unlock()
SetUnlock ==
    /\ wpc = "unlock"
    /\ mu' = [mu EXCEPT !.writer = FALSE]
    /\ wi' = wi + 1
    /\ wpc' = IF wi + 1 = NumSets THEN "done" ELSE "idle"
    /\ UNCHANGED <<wn, rpc, rn, rres, written>>
    /\ UNCHANGED storeVars
    /\ UNCHANGED <<held, ini, global>>

\* a reader that holds no result
NoRead == [op |-> "none", res |-> 0, torn |-> FALSE]

\* a reader's c.mu.RLock() returns
ReadLocked(r) ==
    /\ rpc[r] = "idle"
    /\ rn[r] < NumReads
    /\ RLockReturns(mu)
    /\ mu' = [mu EXCEPT !.readers = @ \cup {r}]
    /\ rpc' = [rpc EXCEPT ![r] = "read"]
    /\ UNCHANGED <<wpc, wi, wn, rn, rres, written>>
    /\ UNCHANGED storeVars
    /\ UNCHANGED <<held, ini, global>>

\* the body of GetInt(key, 0) or of Has(key)
Read(r, op) ==
    /\ rpc[r] = "read"
    /\ rres' = [rres EXCEPT ![r] =
                    [op |-> op, res |-> Result(Receiver, op, last.key, <<0>>), torn |-> wpc = "write"]]
    /\ rpc' = [rpc EXCEPT ![r] = "unlock"]
    /\ UNCHANGED <<mu, wpc, wi, wn, rn, written>>
    /\ UNCHANGED storeVars
    /\ UNCHANGED <<held, ini, global>>

\* the deferred c.mu.RUnlock(); the caller has the result and drops it
ReadUnlock(r) ==
    /\ rpc[r] = "unlock"
    /\ mu' = [mu EXCEPT !.readers = @ \ {r}]
    /\ rn' = [rn EXCEPT ![r] = @ + 1]
    /\ rpc' = [rpc EXCEPT ![r] = IF rn[r] + 1 = NumReads THEN "done" ELSE "idle"]
    /\ rres' = [rres EXCEPT ![r] = NoRead]
    /\ UNCHANGED <<wpc, wi, wn, written>>
    /\ UNCHANGED storeVars
    /\ UNCHANGED <<held, ini, global>>

ConcInit ==
    /\ isNil = FALSE
    /\ data = EmptyMap
    /\ dataNil = FALSE
    /\ last \in {[New EXCEPT !.key = key] : key \in {Ka, Kab, Kabc}}
    /\ mu = Idle
    /\ wpc = "idle" /\ wi = 0 /\ wn = 0
    /\ rpc = [r \in Threads |-> "idle"]
    /\ rn = [r \in Threads |-> 0]
    /\ rres = [r \in Threads |-> NoRead]
    /\ written = {}
    /\ held = NoCopy
    /\ ini = NoParse
    /\ global = NoGlobal

ConcNext ==
    \/ SetLock
    \/ SetLocked
    \/ SetWrite
    \/ SetUnlock
    \/ \E r \in Threads : ReadLocked(r)
    \/ \E r \in Threads : \E op \in {"GetInt", "Has"} : Read(r, op)
    \/ \E r \in Threads : ReadUnlock(r)

ConcSpec == ConcInit /\ [][ConcNext]_vars

ConcDone == wpc = "done" /\ \A r \in Threads : rpc[r] = "done"

-----------------------------------------------------------------------------
(* One goroutine in LoadFromFile, its steps taken one by one under c.mu, and
   goroutines that call GetInt and Has on the same store *)

\* a validation callback that calls c.Has before it returns nil
CallsAccessor == "reads"

\* the loads of the goroutine: c.json under every callback, with and without a
\* required key that is missing
LockedLoadCases ==
    {[file |-> FileJSON,
      opts |-> [ZeroOptions EXCEPT !.RequiredKeys = r, !.ValidationFunc = vf],
      env |-> NoEnv] :
        r \in RequiredKeyLists, vf \in ValidationFuncs \cup {CallsAccessor}}

\* the file is read and decoded, then LoadFromFile calls c.mu.Lock()
LoadLock ==
    /\ wpc = "idle"
    /\ mu' = [mu EXCEPT !.waiting = TRUE]
    /\ wpc' = "lock"
    /\ UNCHANGED <<wi, wn, rpc, rn, rres, written>>
    /\ UNCHANGED storeVars
    /\ UNCHANGED <<held, ini, global>>

\* c.mu.Lock() returns
LoadLocked ==
    /\ wpc = "lock"
    /\ LockReturns(mu)
    /\ mu' = [mu EXCEPT !.waiting = FALSE, !.writer = TRUE]
    /\ wpc' = "merge"
    /\ UNCHANGED <<wi, wn, rpc, rn, rres, written>>
    /\ UNCHANGED storeVars
    /\ UNCHANGED <<held, ini, global>>

\* c.data = configData, the defaults, the environment and the required keys; the
\* callback is next when there is one and no required key is missing
LoadMerge ==
    /\ wpc = "merge"
    /\ \E out \in {LoadOutcome(Receiver, last.file, last.opts, last.env, last.order)} :
        /\ data' = out.data
        /\ dataNil' = out.dataNil
        /\ last' = [last EXCEPT !.status = out.status, !.errKey = out.errKey,
                                !.parsed = out.parsed, !.afterDefaults = out.afterDefaults,
                                !.merged = out.merged, !.validated = out.validated]
        /\ wpc' = IF out.validated THEN "callback" ELSE "unlock"
    /\ UNCHANGED <<mu, wi, wn, rpc, rn, rres, written>>
    /\ UNCHANGED <<isNil, held, ini, global>>

\* opts.ValidationFunc(dataCopy) runs and returns; a callback that calls c.Has
\* returns once c.mu.RLock() has returned in it
LoadCallback ==
    /\ wpc = "callback"
    /\ last.opts.ValidationFunc = CallsAccessor => RLockReturns(mu)
    /\ wpc' = "unlock"
    /\ UNCHANGED <<mu, wi, wn, rpc, rn, rres, written>>
    /\ UNCHANGED storeVars
    /\ UNCHANGED <<held, ini, global>>

\* the deferred c.mu.Unlock()
LoadUnlock ==
    /\ wpc = "unlock"
    /\ mu' = [mu EXCEPT !.writer = FALSE]
    /\ wpc' = "done"
    /\ UNCHANGED <<wi, wn, rpc, rn, rres, written>>
    /\ UNCHANGED storeVars
    /\ UNCHANGED <<held, ini, global>>

LockedLoadInit ==
    /\ isNil = FALSE
    /\ data = EmptyMap
    /\ dataNil = FALSE
    /\ last \in {[Call("LoadFromFile") EXCEPT !.key = Ka, !.file = load.file,
                                              !.opts = load.opts, !.env = load.env] :
                    load \in LockedLoadCases}
    /\ mu = Idle
    /\ wpc = "idle" /\ wi = 0 /\ wn = 0
    /\ rpc = [r \in Threads |-> "idle"]
    /\ rn = [r \in Threads |-> 0]
    /\ rres = [r \in Threads |-> NoRead]
    /\ written = {}
    /\ held = NoCopy
    /\ ini = NoParse
    /\ global = NoGlobal

LockedLoadNext ==
    \/ LoadLock
    \/ LoadLocked
    \/ LoadMerge
    \/ LoadCallback
    \/ LoadUnlock
    \/ \E r \in Threads : ReadLocked(r)
    \/ \E r \in Threads : \E op \in {"GetInt", "Has"} : Read(r, op)
    \/ \E r \in Threads : ReadUnlock(r)

LockedLoadSpec == LockedLoadInit /\ [][LockedLoadNext]_vars

-----------------------------------------------------------------------------
(* Maps handed out.  GetAll, GetNestedMap and LoadFromFile (for its validation
   callback) copy the entries of a map into a new map.  An entry whose value is a
   map is copied as a reference: under that key the new map and the store reach
   the same map object, until one of the two puts another value under the key. *)

\* result := make(map[string]any); maps.Copy(result, m): the new map, the path of
\* m in the store, and the keys under which both reach one map object
ShallowCopy(by, at, m) ==
    [taken |-> TRUE, by |-> by, at |-> at, m |-> m,
     shared |-> {k \in DOMAIN m : m[k].t = "map"}]

Kz == <<"z">>

\* what the holder of a map does to it: m[a] = 5, delete(m, a),
\* m[a].(map[string]any)[z] = 5, and the same under the key b
Mutations ==
    {[kind |-> kind, key |-> key, inner |-> Kz, value |-> IntV(5)] :
        kind \in {"set", "delete", "setNested"}, key \in {Ka, Kb}}

\* the statement can run: the type assertion of a nested write needs a map
CanMutate(copy, mut) ==
    mut.kind = "setNested" => mut.key \in DOMAIN copy.m /\ copy.m[mut.key].t = "map"

\* the handed-out map after its holder ran the statement
HolderWrites(copy, mut) ==
    CASE mut.kind = "set" ->
            [copy EXCEPT !.m = MapSet(copy.m, mut.key, mut.value),
                         !.shared = copy.shared \ {mut.key}]
      [] mut.kind = "delete" ->
            [copy EXCEPT !.m = [k \in DOMAIN copy.m \ {mut.key} |-> copy.m[k]],
                         !.shared = copy.shared \ {mut.key}]
      [] mut.kind = "setNested" ->
            [copy EXCEPT !.m = MapSet(copy.m, mut.key,
                                      MapV(MapSet(copy.m[mut.key].v, mut.inner, mut.value)))]

\* the content of the store after the holder ran the statement: a write into a
\* map object the store also reaches shows in the store
OwnerAfter(m, copy, mut) ==
    IF mut.kind = "setNested" /\ mut.key \in copy.shared
    THEN SetPath(m, copy.at \o <<mut.key, mut.inner>>, mut.value)
    ELSE m

IsPrefix(p, q) == Len(p) <= Len(q) /\ SubSeq(q, 1, Len(p)) = p

\* the handed-out map after the store ran setNestedValueUnsafe along parts and
\* holds m: a write below a shared key shows in the handed-out map, a write that
\* replaces the entry of a shared key or of a map above it ends the sharing
HolderAfterSet(copy, m, parts) ==
    LET below == {k \in copy.shared :
                    IsPrefix(copy.at \o <<k>>, parts) /\ Len(parts) > Len(copy.at) + 1}
        gone == {k \in copy.shared : IsPrefix(parts, copy.at \o <<k>>)}
    IN  [copy EXCEPT
            !.m = [k \in DOMAIN copy.m |->
                      IF k \in below THEN GetPath(m, copy.at \o <<k>>).value ELSE copy.m[k]],
            !.shared = copy.shared \ gone]

\* Set on a store of which a map may have been handed out
SetHeld(key, value) ==
    /\ Set(key, value)
    /\ held' = IF held.taken THEN HolderAfterSet(held, data', Split(key, ".")) ELSE held

\* all := c.GetAll()
TakeAll ==
    /\ held' = ShallowCopy("GetAll", <<>>, GetAll(Receiver).m)
    /\ last' = [Call("GetAll") EXCEPT !.res = GetAll(Receiver)]
    /\ UNCHANGED <<isNil, data, dataNil>>

\* nested := c.GetNestedMap(key)
TakeNestedMap(key) ==
    \E r \in {GetNestedMap(Receiver, key)} :
        /\ held' = IF r.isNil THEN NoCopy ELSE ShallowCopy("GetNestedMap", Split(key, "."), r.m)
        /\ last' = [Call("GetNestedMap") EXCEPT !.key = key, !.res = r]
        /\ UNCHANGED <<isNil, data, dataNil>>

\* the caller that holds the map writes to it
Mutate(mut) ==
    /\ held.taken
    /\ CanMutate(held, mut)
    /\ held' = HolderWrites(held, mut)
    /\ data' = OwnerAfter(data, held, mut)
    /\ last' = [Call("mutate") EXCEPT !.key = mut.key]
    /\ UNCHANGED <<isNil, dataNil>>

\* LoadFromFile with a validation callback that writes to the map it is given
\* and returns nil
LoadFromFileMutating(load, order, mut) ==
    \E out \in {LoadOutcome(Receiver, load.file, load.opts, load.env, order)} :
        \E copy \in {ShallowCopy("ValidationFunc", <<>>, out.merged)} :
            /\ out.validated => CanMutate(copy, mut)
            /\ data' = IF out.validated THEN OwnerAfter(out.data, copy, mut) ELSE out.data
            /\ held' = IF out.validated THEN HolderWrites(copy, mut) ELSE NoCopy
            /\ dataNil' = out.dataNil
            /\ last' = [Call("LoadFromFile") EXCEPT
                            !.file = load.file, !.opts = load.opts, !.env = load.env,
                            !.arg = load.opts.DefaultValues, !.order = order,
                            !.status = out.status, !.errKey = out.errKey,
                            !.parsed = out.parsed, !.afterDefaults = out.afterDefaults,
                            !.merged = out.merged, !.validated = out.validated,
                            !.preKeys = DOMAIN data, !.key = mut.key]
            /\ UNCHANGED isNil

\* loads of the three files that decode to a map, with an accepting callback
MutatingLoadCases ==
    {[file |-> f, opts |-> [ZeroOptions EXCEPT !.ValidationFunc = "accept", !.IgnoreEnv = TRUE],
      env |-> NoEnv] : f \in {FileJSON, FileINI, FileYAML}}

HeldInit ==
    /\ isNil = FALSE
    /\ data = EmptyMap
    /\ dataNil = FALSE
    /\ last = New
    /\ mu = Idle
    /\ wpc = "done" /\ wi = 0 /\ wn = 0
    /\ rpc = <<>> /\ rn = <<>> /\ rres = <<>>
    /\ written = {}
    /\ held = NoCopy
    /\ ini = NoParse
    /\ global = NoGlobal

heldUnchanged == <<mu, wpc, wi, wn, rpc, rn, rres, written, ini, global>>

HeldNext ==
    \/ \E key \in SetKeys, value \in {IntV(1), IntV(2)} :
            SetHeld(key, value) /\ UNCHANGED heldUnchanged
    \/ TakeAll /\ UNCHANGED heldUnchanged
    \/ \E key \in QueryKeys : TakeNestedMap(key) /\ UNCHANGED heldUnchanged
    \/ \E mut \in Mutations : Mutate(mut) /\ UNCHANGED heldUnchanged
    \/ \E load \in MutatingLoadCases, mut \in Mutations :
            LoadFromFileMutating(load, <<>>, mut) /\ UNCHANGED heldUnchanged

HeldSpec == HeldInit /\ [][HeldNext]_vars

-----------------------------------------------------------------------------
(* GetBool on stored strings *)

\* the strings stored: the words of strconv.ParseBool, other spellings of true
\* and false, the words the INI parser takes as booleans, and others
BoolStrings ==
    { <<"1">>, <<"t">>, <<"T">>, <<"T","R","U","E">>, <<"t","r","u","e">>, <<"T","r","u","e">>,
      <<"t","R","u","E">>, <<"t","r","u","E">>,
      <<"0">>, <<"f">>, <<"F">>, <<"F","A","L","S","E">>, <<"f","a","l","s","e">>,
      <<"F","a","l","s","e">>, <<"f","A","l","S","e">>,
      <<"y","e","s">>, <<"n","o">>, <<"o","n">>, <<"o","f","f">>, <<"Y","E","S">>,
      <<"x">>, <<>>, <<"2">>, <<"t","r","u","e"," ">> }

BoolInit ==
    /\ isNil = FALSE
    /\ data = EmptyMap
    /\ dataNil = FALSE
    /\ last = New
    /\ mu = Idle
    /\ wpc = "done" /\ wi = 0 /\ wn = 0
    /\ rpc = <<>> /\ rn = <<>> /\ rres = <<>>
    /\ written = {}
    /\ held = NoCopy
    /\ ini = NoParse
    /\ global = NoGlobal

\* strings are stored under a flat and under a dotted key and read with GetBool
BoolNext ==
    \/ \E key \in QueryKeys, s \in BoolStrings : Set(key, StringV(s)) /\ UNCHANGED concVars
    \/ \E key \in QueryKeys, defaultValue \in {<<>>, <<TRUE>>, <<FALSE>>} :
            Query("GetBool", key, defaultValue) /\ UNCHANGED concVars

BoolSpec == BoolInit /\ [][BoolNext]_vars

-----------------------------------------------------------------------------
(* parseINI on files made of section headers and key/value lines *)

MaxLines == 3

\* the lines: a header, a header whose name holds a dot, a header with an empty
\* name, a header whose name holds a forbidden character, and two key/value lines
INILines ==
    { <<"[", "s", "]">>, <<"[", "s", ".", "t", "]">>, <<"[", "]">>, <<"[", ";", "]">>,
      <<"k", "=", "v">>, <<"j", "=", "1">> }

INIContents ==
    UNION {{JoinWith(lines, <<"\n">>) : lines \in [1..n -> INILines]} : n \in 1..MaxLines}

INIFile(content) == File(<<"c", ".", "i", "n", "i">>, TRUE, TRUE, content, DecodeError, DecodeError)

\* the file is drawn with the initial state
INIInit ==
    /\ isNil = FALSE
    /\ data = EmptyMap
    /\ dataNil = FALSE
    /\ last \in {[New EXCEPT !.file = INIFile(content)] : content \in INIContents}
    /\ mu = Idle
    /\ wpc = "done" /\ wi = 0 /\ wn = 0
    /\ rpc = <<>> /\ rn = <<>> /\ rres = <<>>
    /\ written = {}
    /\ held = NoCopy
    /\ ini = NoParse
    /\ global = NoGlobal

\* c.LoadFromFile("c.ini", &LoadOptions{IgnoreEnv: true})
LoadINI ==
    LoadFromFile([file |-> last.file, opts |-> [ZeroOptions EXCEPT !.IgnoreEnv = TRUE],
                  env |-> NoEnv, given |-> FALSE], <<>>)

ININext == LoadINI /\ UNCHANGED concVars

INISpec == INIInit /\ [][ININext]_vars

-----------------------------------------------------------------------------
(* parseINI line by line, on files with continued lines *)

\* the lines: a key/value line that ends in a backslash, a line of text, a
\* key/value line, a header, and a key/value line that ends in two backslashes
ContinuedLines ==
    { <<"a", "=", "1", " ", "\\">>, <<" ", " ", " ", "2">>, <<"b", "=", "2">>,
      <<"[", "s", "]">>, <<"a", "=", "x", "\\", "\\">> }

ContinuedContents ==
    UNION {{JoinWith(lines, <<"\n">>) : lines \in [1..n -> ContinuedLines]} : n \in 1..MaxLines}

\* result := make(map[string]any); lines := strings.Split(content, "\n")
ParseInit ==
    /\ isNil = FALSE
    /\ data = EmptyMap
    /\ dataNil = FALSE
    /\ last = New
    /\ mu = Idle
    /\ wpc = "done" /\ wi = 0 /\ wn = 0
    /\ rpc = <<>> /\ rn = <<>> /\ rres = <<>>
    /\ written = {}
    /\ held = NoCopy
    /\ global = NoGlobal
    /\ ini \in {[NoParse EXCEPT !.lines = Split(content, "\n")] : content \in ContinuedContents}

\* one iteration of for i, line := range lines
ParseStep ==
    /\ ini.i <= Len(ini.lines)
    /\ ini' = [ini EXCEPT !.i = ini.i + 1, !.st = ParseLine(ini.lines, ini.i, ini.st)]
    /\ UNCHANGED <<isNil, data, dataNil, last, mu, wpc, wi, wn, rpc, rn, rres, written, held, global>>

ParseSpec == ParseInit /\ [][ParseStep]_vars

-----------------------------------------------------------------------------
(* The global instance of compatibility.go: goroutines that call a package-level
   function for the first time, each through initGlobalConfig and then through
   globalConfig.  sync.Once.Do is taken step by step: the load of done, the
   mutex, the test of done under the mutex, f, the store of done, the unlock. *)

NumCallers == 3
Callers == 1..NumCallers

\* a Once that runs f whatever done holds
OnceRunsAlways(g) == TRUE

\* if o.done.Load() == 0, under o.m: f has not run yet
OnceRuns(g) == ~g.done

\* if o.done.Load() == 0 { o.doSlow(f) }
OnceLoad(r) ==
    /\ rpc[r] = "idle"
    /\ rpc' = [rpc EXCEPT ![r] = IF global.done THEN "use" ELSE "lock"]
    /\ UNCHANGED <<global, rres>>

\* o.m.Lock()
OnceLock(r) ==
    /\ rpc[r] = "lock"
    /\ global.m = 0
    /\ global' = [global EXCEPT !.m = r]
    /\ rpc' = [rpc EXCEPT ![r] = "locked"]
    /\ UNCHANGED rres

\* the test of done under the mutex
OnceLocked(r) ==
    /\ rpc[r] = "locked"
    /\ rpc' = [rpc EXCEPT ![r] = IF OnceRuns(global) THEN "new" ELSE "unlock"]
    /\ UNCHANGED <<global, rres>>

\* New() builds an instance; rres[r] holds the pointer it returns
GlobalNew(r) ==
    /\ rpc[r] = "new"
    /\ global' = [global EXCEPT !.built = global.built + 1]
    /\ rres' = [rres EXCEPT ![r] = global.built + 1]
    /\ rpc' = [rpc EXCEPT ![r] = "assign"]

\* globalConfig, err = New()
GlobalAssign(r) ==
    /\ rpc[r] = "assign"
    /\ global' = [global EXCEPT !.config = rres[r]]
    /\ rres' = [rres EXCEPT ![r] = 0]
    /\ rpc' = [rpc EXCEPT ![r] = "store"]

\* defer o.done.Store(1)
OnceStore(r) ==
    /\ rpc[r] = "store"
    /\ global' = [global EXCEPT !.done = TRUE]
    /\ rpc' = [rpc EXCEPT ![r] = "unlock"]
    /\ UNCHANGED rres

\* defer o.m.Unlock()
OnceUnlock(r) ==
    /\ rpc[r] = "unlock"
    /\ global' = [global EXCEPT !.m = 0]
    /\ rpc' = [rpc EXCEPT ![r] = "use"]
    /\ UNCHANGED rres

\* globalConfig.Set(key, value), globalConfig.Has(key), ...: rres[r] holds the
\* pointer the method is called on
GlobalUse(r) ==
    /\ rpc[r] = "use"
    /\ rres' = [rres EXCEPT ![r] = global.config]
    /\ rpc' = [rpc EXCEPT ![r] = "done"]
    /\ UNCHANGED global

OnceInit ==
    /\ isNil = FALSE
    /\ data = EmptyMap
    /\ dataNil = FALSE
    /\ last = New
    /\ mu = Idle
    /\ wpc = "done" /\ wi = 0 /\ wn = 0
    /\ rpc = [r \in Callers |-> "idle"]
    /\ rn = [r \in Callers |-> 0]
    /\ rres = [r \in Callers |-> 0]
    /\ written = {}
    /\ held = NoCopy
    /\ ini = NoParse
    /\ global = NoGlobal

onceUnchanged == <<isNil, data, dataNil, last, mu, wpc, wi, wn, rn, written, held, ini>>

OnceNext ==
    \/ \E r \in Callers : OnceLoad(r) /\ UNCHANGED onceUnchanged
    \/ \E r \in Callers : OnceLock(r) /\ UNCHANGED onceUnchanged
    \/ \E r \in Callers : OnceLocked(r) /\ UNCHANGED onceUnchanged
    \/ \E r \in Callers : GlobalNew(r) /\ UNCHANGED onceUnchanged
    \/ \E r \in Callers : GlobalAssign(r) /\ UNCHANGED onceUnchanged
    \/ \E r \in Callers : OnceStore(r) /\ UNCHANGED onceUnchanged
    \/ \E r \in Callers : OnceUnlock(r) /\ UNCHANGED onceUnchanged
    \/ \E r \in Callers : GlobalUse(r) /\ UNCHANGED onceUnchanged

OnceSpec == OnceInit /\ [][OnceNext]_vars

-----------------------------------------------------------------------------
(* processINIValue applied to one value at a time *)

MaxValueLen == 3

\* digits, a sign, the comma, both quotes, and the letters of no and on in both cases
ValueChars == {"1", "2", "-", ",", "\"", "'", "n", "o", "O"}

\* the words the short values leave out: the boolean words, quoted words, floats,
\* escape sequences, lists with blanks, and the integers around the bounds of int
\* and of int64
ValueWords ==
    { <<"t","r","u","e">>, <<"T","R","U","E">>, <<"y","e","s">>, <<"Y","e","s">>,
      <<"o","f","f">>, <<"f","a","l","s","e">>, <<"F","a","l","s","e">>, <<"N","O">>,
      <<"0">>, <<"4","2">>, <<"\"","4","2","\"">>, <<"\"","t","r","u","e","\"">>,
      <<"'","0","'">>, <<"\"","a","\\","n","\"">>, <<"a","\\","t","b">>,
      <<"1",".","5">>, <<"-","2",".","5">>, <<".","5">>, <<"1",".","5",",","2">>,
      <<"a",","," ","b">>, <<"a",","," ">>, <<"a",",",",","b",",">>, <<"t","r","u","e",",","1">>,
      <<"1","2","a">>, <<"+","7">> }
    \cup {Itoa(n) : n \in {MaxInt - 1, MaxInt, MaxInt + 1, MaxInt64, MaxInt64 + 1}}
    \cup {Itoa(0 - n) : n \in {MaxInt, MaxInt + 1, MaxInt + 2, MaxInt64 + 1, MaxInt64 + 2}}

INIValues == ValueWords \cup UNION {[1..n -> ValueChars] : n \in 0..MaxValueLen}

\* a value is at hand and processINIValue has not been called with it
ValueInit ==
    /\ isNil = FALSE
    /\ data = EmptyMap
    /\ dataNil = FALSE
    /\ last \in {[Call("idle") EXCEPT !.key = value] : value \in INIValues}
    /\ mu = Idle
    /\ wpc = "idle" /\ wi = 0 /\ wn = 0
    /\ rpc = [r \in Threads |-> "idle"]
    /\ rn = [r \in Threads |-> 0]
    /\ rres = [r \in Threads |-> NoRead]
    /\ written = {}
    /\ held = NoCopy
    /\ ini = NoParse
    /\ global = NoGlobal

\* processINIValue(value) returns
ProcessValue ==
    /\ last.op = "idle"
    /\ last' = [last EXCEPT !.op = "processINIValue", !.res = processINIValue(last.key)]
    /\ UNCHANGED <<isNil, data, dataNil>>
    /\ UNCHANGED concVars

ValueNext == ProcessValue

ValueSpec == ValueInit /\ [][ValueNext]_vars

-----------------------------------------------------------------------------
(* The load pipeline: C1 to C6 *)

\* C1: a LoadFromFile whose RequiredKeys hold a key that is absent from the merged
\* tree (neither a top-level key nor a resolvable dotted path) returns
\* RequiredKeyMissing naming such a key, and leaves the store's content as it was
\* before the call.
RequiredKeyMissingKeepsStore ==
    [][ ( /\ last'.op = "LoadFromFile"
          /\ ~isNil
          /\ Decodes(last')
          /\ last'.status # "panic"
          /\ \E i \in DOMAIN last'.opts.RequiredKeys :
                ~Has(Config(FALSE, MergedTree(last'), FALSE), last'.opts.RequiredKeys[i]) )
        => ( /\ last'.status = "ErrRequiredKeyMissing"
             /\ \E i \in DOMAIN last'.opts.RequiredKeys : last'.errKey = last'.opts.RequiredKeys[i]
             /\ ~Has(Config(FALSE, MergedTree(last'), FALSE), last'.errKey)
             /\ data' = data ) ]_vars

\* C2: when the validation callback reports a failure, LoadFromFile returns the
\* wrapped validation error and leaves the store's content as it was before the
\* call.
ValidationFailedKeepsStore ==
    [][ ( /\ last'.op = "LoadFromFile"
          /\ last'.validated
          /\ last'.opts.ValidationFunc = "reject" )
        => ( /\ last'.status = "ValidationFailed"
             /\ data' = data ) ]_vars

\* C3: after a LoadFromFile that returns success the store's content is exactly the
\* merged tree built from the file, the defaults and the environment; no key the
\* store held before the call and the merged tree lacks is left in it.
SuccessfulLoadReplacesStore ==
    [][ (last'.op = "LoadFromFile" /\ last'.status = "ok")
        => ( /\ data' = MergedTree(last')
             /\ \A key \in DOMAIN data :
                    key \notin DOMAIN MergedTree(last') => key \notin DOMAIN data' ) ]_vars

\* a load succeeded on a store that held a key the merged tree lacks
SuccessfulLoadDroppedKey ==
    /\ last.op = "LoadFromFile"
    /\ last.status = "ok"
    /\ last.preKeys \ DOMAIN last.merged # {}
    /\ data = last.merged

\* C4: applying a defaults map, in LoadFromFile or in SetNestedDefaults, leaves the
\* value read at every key that Has reported before the defaults were applied.
DefaultsKeepExistingValues ==
    [][ /\ (last'.op = "LoadFromFile" /\ last'.status \in {"ok", "ErrRequiredKeyMissing", "ValidationFailed"})
            => \A key \in SetKeys :
                    Has(Config(FALSE, last'.parsed, FALSE), key)
                        => Lookup(last'.afterDefaults, key) = Lookup(last'.parsed, key)
        /\ (last'.op = "SetNestedDefaults" /\ last'.status = "ok" /\ ~isNil)
            => \A key \in SetKeys :
                    Has(Receiver, key) => Lookup(data', key) = Lookup(data, key) ]_vars

\* C5 as stated: unless IgnoreEnv is set, after a successful LoadFromFile every
\* top-level key for which an environment variable of that name is set holds the
\* variable's content, the empty string included.
EnvOverridesWhateverContent ==
    (last.op = "LoadFromFile" /\ last.status = "ok" /\ ~last.opts.IgnoreEnv)
        => \A key \in DOMAIN data :
                key \in DOMAIN last.env => data[key] = StringV(last.env[key])

\* C5 amended: unless IgnoreEnv is set, after a successful LoadFromFile every
\* top-level key for which an environment variable of that name holds a non-empty
\* string holds that string, whatever the type of the value before the overlay; a
\* key whose variable is unset or empty keeps its value.
EnvOverridesNonEmptyContent ==
    (last.op = "LoadFromFile" /\ last.status = "ok" /\ ~last.opts.IgnoreEnv)
        => \A key \in DOMAIN data :
                IF key \in DOMAIN last.env /\ last.env[key] # <<>>
                THEN data[key] = StringV(last.env[key])
                ELSE data[key] = last.afterDefaults[key]

\* a successful load overrode a key that held a map with the variable's content
EnvOverrodeMap ==
    /\ last.op = "LoadFromFile"
    /\ last.status = "ok"
    /\ ~last.opts.IgnoreEnv
    /\ \E key \in DOMAIN data \cap DOMAIN last.env :
            /\ last.env[key] # <<>>
            /\ last.afterDefaults[key].t = "map"
            /\ data[key] = StringV(last.env[key])

\* C6: the environment overlay adds and removes no key, leaves every key that no
\* set variable names, and changes nothing when IgnoreEnv is set.
EnvOverlayKeepsKeys ==
    (last.op = "LoadFromFile" /\ last.status \in {"ok", "ErrRequiredKeyMissing", "ValidationFailed"})
        => ( /\ DOMAIN last.merged = DOMAIN last.afterDefaults
             /\ \A key \in DOMAIN last.afterDefaults :
                    key \notin DOMAIN last.env => last.merged[key] = last.afterDefaults[key]
             /\ last.opts.IgnoreEnv => last.merged = last.afterDefaults )

\* a load overlaid an environment with a variable that names no key of the tree
EnvNamedAbsentKey ==
    /\ last.op = "LoadFromFile"
    /\ last.status = "ok"
    /\ ~last.opts.IgnoreEnv
    /\ \E name \in DOMAIN last.env : last.env[name] # <<>> /\ name \notin DOMAIN data
    /\ \E name \in DOMAIN last.env : name \in DOMAIN data /\ data[name] # last.afterDefaults[name]

-----------------------------------------------------------------------------
(* The setters and getters: C7 to C9 *)

\* C7: in every reachable state of a constructed store, a literal top-level key
\* equal to the dotted key included, Set(k, v) followed at once by the getter of
\* v's type on k returns v.
SetThenGetReturnsValue ==
    (last.op = "Set" /\ ~isNil /\ last.status = "ok")
        => CASE last.value.t = "string" -> GetString(Receiver, last.key, <<>>) = last.value.v
             [] last.value.t = "int" -> GetInt(Receiver, last.key, <<>>) = last.value.v
             [] last.value.t = "float64" -> GetFloat64(Receiver, last.key, <<>>) = last.value.v
             [] last.value.t = "bool" -> GetBool(Receiver, last.key, <<>>) = last.value.v
             [] last.value.t = "[]string" ->
                    GetStringSlice(Receiver, last.key, <<>>) = Slice(last.value.v)

\* C8: when the store holds a literal top-level key equal to the key a typed
\* accessor is called with, the accessor returns what it returns on a store that
\* holds that entry and nothing else: the nested path is not consulted.
FlatEntryAloneDecides ==
    (last.op \in Getters /\ ~isNil /\ last.key \in DOMAIN data)
        => last.res = Result(Config(FALSE, last.key :> data[last.key], FALSE),
                             last.op, last.key, last.default)

\* the zero or default result of a read-only method
ZeroResult(op, defaultValue) ==
    CASE op = "GetString" -> DefaultOr(defaultValue, <<>>)
      [] op \in {"GetInt", "GetFloat64", "Size"} -> DefaultOr(defaultValue, 0)
      [] op = "GetBool" -> DefaultOr(defaultValue, FALSE)
      [] op = "GetDuration" -> DefaultOr(defaultValue, ZeroDuration)
      [] op = "GetStringSlice" -> DefaultOr(defaultValue, NilSlice)
      [] op = "Has" -> FALSE
      [] op = "IsEmpty" -> TRUE
      [] op \in {"Keys", "GetNestedKeys"} -> {}
      [] op \in {"GetAll", "GetNestedMap"} -> NilMapRes

\* C9: every operation called on a nil Config completes without failing, has no
\* effect, and returns the zero or default result of its type (String aside,
\* which says that the Config is nil).
NilConfigNeverFails ==
    (isNil /\ last.op # "New")
        => ( /\ last.status = "ok"
             /\ data = EmptyMap
             /\ last.op \in (Getters \cup KeyedReaders \cup Readers) \ {"String"}
                    => last.res = ZeroResult(last.op, last.default) )

-----------------------------------------------------------------------------
(* Readers and one writer: C10 *)

\* C10: with readers that call GetInt and Has again and again and one writer that
\* calls Set again and again on the same key, flat or dotted, no interleaving
\* stops before every goroutine is done, no read runs while a Set is at work on
\* the maps, and every read returns the default or a value that a Set stored in
\* full: Has reports the key only once a Set stored it.
ConcurrentReadsAreWhole ==
    /\ ConcDone \/ ENABLED ConcNext
    /\ \A r \in Threads :
        /\ rpc[r] \in {"read", "unlock"} => wpc \notin {"write", "unlock"}
        /\ ~rres[r].torn
        /\ rres[r].op = "GetInt" => rres[r].res = 0 \/ rres[r].res \in written
        /\ rres[r].op = "Has" => (rres[r].res => written # {})

\* on a dotted key, a reader has read the value the first Set stored and still
\* holds the read lock, the writer waits for its next Set, and another reader
\* waits behind the writer
ReadBetweenNestedSets ==
    /\ Contains(last.key, ".")
    /\ wpc = "lock"
    /\ wi > 0
    /\ \E r \in Threads :
            /\ rpc[r] = "unlock"
            /\ rres[r].op = "GetInt"
            /\ rres[r].res = wi
            /\ \E o \in Threads \ {r} : rpc[o] = "idle" /\ rn[o] < NumReads

-----------------------------------------------------------------------------
(* The lock of LoadFromFile: C11 *)

\* C11: the write lock is not held while the validation callback runs, so readers
\* can take the read lock then, and a load whose callback calls an accessor of
\* the same store never comes to a stop before every goroutine is done.
ValidationRunsOutsideLock ==
    /\ wpc = "callback" => ~mu.writer /\ RLockReturns(mu)
    /\ ConcDone \/ ENABLED LockedLoadNext

-----------------------------------------------------------------------------
(* Loads that fail before the lock: C12 *)

\* C12: a LoadFromFile of a file that does not exist returns ErrFileNotFound, one
\* whose JSON or YAML decoder rejects the content returns the parse error, one
\* with an unsupported format value returns ErrInvalidFormat, and each leaves the
\* store's content as it was before the call.
EarlyFailureKeepsStore ==
    [][ last'.op = "LoadFromFile"
        => LET file == last'.file
               format == DetectFormat(last'.opts.Format, file.path)
               expected ==
                    IF ~file.exists THEN "ErrFileNotFound"
                    ELSE IF ~file.readable THEN "none"
                    ELSE IF format = FormatJSON /\ file.json.err THEN "ParseError"
                    ELSE IF format = FormatYAML /\ file.yaml.err THEN "ParseError"
                    ELSE IF format \notin {FormatINI, FormatJSON, FormatYAML} THEN "ErrInvalidFormat"
                    ELSE "none"
           IN  expected # "none"
                => /\ last'.status = expected
                   /\ data' = data
                   /\ dataNil' = dataNil ]_vars

\* a load that a decoder rejected returned on a store that holds an earlier load
ParseErrorOnLoadedStore ==
    /\ last.op = "LoadFromFile"
    /\ last.status = "ParseError"
    /\ last.preKeys # {}
    /\ DOMAIN data = last.preKeys

-----------------------------------------------------------------------------
(* Maps handed out: C13 and C14 *)

\* C13: the validation callback works on a defensive copy.  Whatever the callback
\* does to the map it is given (adding, deleting or replacing top-level entries,
\* writing into a nested map), a load that succeeds commits the merged tree.
CallbackCannotChangeCommit ==
    [][ last'.op = "LoadFromFile" /\ last'.validated /\ last'.status = "ok"
        => data' = last'.merged ]_vars

\* C14: GetAll and GetNestedMap return defensive copies.  A write by the caller to
\* the returned map, at its top level or inside a nested map, leaves the content
\* of the store as it was (so Has and the getters return what they returned), and
\* a later Set on the store leaves the returned map as it was.
ReturnedMapsAreDetached ==
    [][ held.taken /\ held.by \in {"GetAll", "GetNestedMap"}
        => /\ last'.op = "mutate" => data' = data
           /\ last'.op = "Set" => held'.m = held.m ]_vars

-----------------------------------------------------------------------------
(* Nested writes and lookups: C15 to C17 *)

\* the map that holds value at the end of the path parts and nothing else
RECURSIVE Chain(_, _)
Chain(parts, value) ==
    IF Len(parts) = 1 THEN Head(parts) :> value
    ELSE Head(parts) :> MapV(Chain(Tail(parts), value))

\* the map at the path parts of the tree m
MapAt(m, parts) == IF parts = <<>> THEN MapV(m) ELSE GetPath(m, parts).value

\* C15: a Set whose path passes through a segment that holds a non-map value
\* replaces that value by a new map: GetNestedMap of that segment is then the map
\* that holds only the rest of the path (after Set("a.b", v1), Set("a.b.c", v2):
\* GetNestedMap("a.b") = {c: v2}).  The other entries of every map on the path
\* are kept.
NestedSetOverwritesNonMap ==
    [][ last'.op = "Set" /\ last'.status = "ok" /\ ~isNil
        => LET parts == Split(last'.key, ".")
           IN  /\ \A i \in 1..(Len(parts) - 1) :
                     i \in last'.overwrote
                     => GetNestedMap(Config(FALSE, data', FALSE), JoinWith(SubSeq(parts, 1, i), <<".">>))
                            = MapRes(Chain(SubSeq(parts, i + 1, Len(parts)), last'.value))
               /\ \A i \in 0..(Len(parts) - 1) :
                     MapAt(data, SubSeq(parts, 1, i)).t = "map"
                     => /\ MapAt(data', SubSeq(parts, 1, i)).t = "map"
                        /\ \A k \in DOMAIN MapAt(data, SubSeq(parts, 1, i)).v \ {parts[i + 1]} :
                             /\ k \in DOMAIN MapAt(data', SubSeq(parts, 1, i)).v
                             /\ MapAt(data', SubSeq(parts, 1, i)).v[k]
                                    = MapAt(data, SubSeq(parts, 1, i)).v[k] ]_vars

\* Set("a.b.c", v) replaced a scalar at a.b by {c: v} and kept the sibling a.c
SetReplacedScalarKeptSibling ==
    /\ last.op = "Set" /\ last.status = "ok" /\ last.key = Kabc /\ 2 \in last.overwrote
    /\ DOMAIN data[Ka].v = {Kb, Kc}
    /\ data[Ka].v[Kb] = MapV(Kc :> last.value)

\* the maps reached from m by following every segment of parts through maps
RECURSIVE Descend(_, _)
Descend(m, parts) ==
    IF parts = <<>> THEN {m}
    ELSE IF Head(parts) \in DOMAIN m /\ m[Head(parts)].t = "map"
    THEN Descend(m[Head(parts)].v, Tail(parts))
    ELSE {}

\* every segment of key but the last leads to a map, and the last is a key of it
Resolves(m, key) ==
    \E reached \in Descend(m, SubSeq(Split(key, "."), 1, Len(Split(key, ".")) - 1)) :
        Split(key, ".")[Len(Split(key, "."))] \in DOMAIN reached

\* C16: Has(k) is true exactly when k is a literal top-level key, or k holds a
\* separator, every segment but the last resolves to a nested map and the last is
\* a key of the last map; a call of Has or of a getter leaves the content of the
\* store as it was.
HasIsLiteralOrResolved ==
    [][ /\ (last'.op = "Has" /\ ~isNil)
            => last'.res = ( \/ last'.key \in DOMAIN data
                            \/ (Contains(last'.key, ".") /\ Resolves(data, last'.key)) )
        /\ (last'.op \in Getters \cup {"Has"}) => (data' = data /\ dataNil' = dataNil) ]_vars

\* Has("a.b.c") returned false on a store where a.b holds a value that is not a map
HasStoppedAtNonMap ==
    /\ last.op = "Has" /\ last.key = Kabc /\ last.res = FALSE /\ ~isNil
    /\ Ka \in DOMAIN data /\ data[Ka].t = "map"
    /\ Kb \in DOMAIN data[Ka].v /\ data[Ka].v[Kb].t # "map"

\* C17: for every prefix p, a top-level key or a dotted path, GetNestedKeys(p)
\* returns the keys of the map GetNestedMap(p) returns, each prefixed with p and a
\* separator, and nothing when p does not resolve to a map.
NestedKeysFollowResolver ==
    (last.op = "GetNestedKeys" /\ ~isNil)
        => last.res = IF GetNestedMap(Receiver, last.key).isNil THEN {}
                      ELSE {last.key \o <<".">> \o k :
                                k \in DOMAIN GetNestedMap(Receiver, last.key).m}

-----------------------------------------------------------------------------
(* The format of a load: C18 *)

\* C18: LoadFromFile decodes with the format the caller writes in
\* LoadOptions.Format (FormatINI, FormatJSON or FormatYAML) whatever the file's
\* extension is; when the caller names no format it decodes with the format of
\* the lower-cased extension: .json JSON, .yaml and .yml YAML, anything else INI.
ExplicitFormatIsHonoured ==
    ( /\ last.op = "LoadFromFile" /\ ~isNil
      /\ last.file.exists /\ last.file.readable
      /\ last.given => last.opts.Format \in {FormatINI, FormatJSON, FormatYAML} )
        => LET ext == ToLower(Ext(last.file.path))
               format == IF last.given THEN last.opts.Format
                         ELSE IF ext = <<".", "j", "s", "o", "n">> THEN FormatJSON
                         ELSE IF ext \in {<<".", "y", "a", "m", "l">>, <<".", "y", "m", "l">>}
                         THEN FormatYAML
                         ELSE FormatINI
               parse == Parse(format, last.file)
           IN  IF parse.status # "ok" THEN last.status = parse.status
               ELSE last.status # "ParseError" /\ last.parsed = parse.out.m

-----------------------------------------------------------------------------
(* GetBool on stored strings: C19 *)

\* C19 as stated: GetBool on a stored string returns true exactly when the string
\* is "true" or "1" whatever its case, false exactly when it is "false" or "0"
\* whatever its case, and the default (false when none is given) for every other
\* string, "yes", "no", "on" and "off" included.
GetBoolIgnoresCase ==
    ( /\ last.op = "GetBool"
      /\ Lookup(data, last.key).exists
      /\ Lookup(data, last.key).value.t = "string" )
        => last.res =
              IF ToLower(Lookup(data, last.key).value.v) \in {<<"t","r","u","e">>, <<"1">>}
              THEN TRUE
              ELSE IF ToLower(Lookup(data, last.key).value.v) \in {<<"f","a","l","s","e">>, <<"0">>}
              THEN FALSE
              ELSE DefaultOr(last.default, FALSE)

\* C19, amended: GetBool on a stored string returns true exactly for 1, t, T,
\* TRUE, true and True, false exactly for 0, f, F, FALSE, false and False, and the
\* default (false when none is given) for every other string: other mixes of
\* case, "yes", "no", "on" and "off" included.
GetBoolTakesParseBoolWords ==
    ( /\ last.op = "GetBool"
      /\ Lookup(data, last.key).exists
      /\ Lookup(data, last.key).value.t = "string" )
        => last.res =
              IF Lookup(data, last.key).value.v
                    \in { <<"1">>, <<"t">>, <<"T">>, <<"T","R","U","E">>, <<"t","r","u","e">>,
                          <<"T","r","u","e">> }
              THEN TRUE
              ELSE IF Lookup(data, last.key).value.v
                    \in { <<"0">>, <<"f">>, <<"F">>, <<"F","A","L","S","E">>,
                          <<"f","a","l","s","e">>, <<"F","a","l","s","e">> }
              THEN FALSE
              ELSE DefaultOr(last.default, FALSE)

\* GetBool with the default true read the stored string "f" at a dotted key and
\* returned false
GetBoolReadSingleLetter ==
    /\ last.op = "GetBool" /\ last.key = Kab /\ last.default = <<TRUE>>
    /\ Lookup(data, Kab).exists
    /\ Lookup(data, Kab).value = StringV(<<"f">>)
    /\ last.res = FALSE

-----------------------------------------------------------------------------
(* Section headers of INI files: C20 *)

IsHeader(line) == HasPrefix(TrimSpace(line), "[") /\ HasSuffix(TrimSpace(line), "]")

HeaderName(line) == TrimSpace(SubSeq(TrimSpace(line), 2, Len(TrimSpace(line)) - 1))

\* the header invalidates what follows; emptyInvalidates says whether a header
\* with an empty name does
Invalidates(line, emptyInvalidates) ==
    /\ IsHeader(line)
    /\ \/ emptyInvalidates /\ HeaderName(line) = <<>>
       \/ HeaderName(line) # <<>> /\ ContainsAny(HeaderName(line), Forbidden)

ValidHeader(line) ==
    IsHeader(line) /\ HeaderName(line) # <<>> /\ ~ContainsAny(HeaderName(line), Forbidden)

\* line i is a key/value line that follows an invalidating header with no valid
\* header in between
Discarded(lines, i, emptyInvalidates) ==
    /\ ~IsHeader(lines[i])
    /\ \E h \in 1..(i - 1) :
          /\ Invalidates(lines[h], emptyInvalidates)
          /\ \A g \in (h + 1)..(i - 1) : ~ValidHeader(lines[g])

\* the lines from i on without the discarded ones
RECURSIVE KeptFrom(_, _, _)
KeptFrom(lines, i, emptyInvalidates) ==
    IF i > Len(lines) THEN <<>>
    ELSE (IF Discarded(lines, i, emptyInvalidates) THEN <<>> ELSE <<lines[i]>>)
            \o KeptFrom(lines, i + 1, emptyInvalidates)

Kept(content, emptyInvalidates) ==
    JoinWith(KeptFrom(Split(content, "\n"), 1, emptyInvalidates), <<"\n">>)

\* C20 as stated: after a section header whose name is empty or holds one of the
\* characters [ ] # ; =, every following key/value line is discarded until the
\* next valid header or the end of the input: the file is parsed as the file
\* without those lines is.
InvalidOrEmptyHeaderDiscards ==
    (last.op = "LoadFromFile" /\ last.status = "ok")
        => data = parseINI(Kept(last.file.content, TRUE))

\* C20, amended: after a section header whose name holds one of the characters
\* [ ] # ; =, every following key/value line is discarded until the next valid
\* header or the end of the input; a header with an empty name is skipped and the
\* lines after it go where they would have gone without it.
InvalidHeaderDiscards ==
    (last.op = "LoadFromFile" /\ last.status = "ok")
        => data = parseINI(Kept(last.file.content, FALSE))

\* the file [s], [;], k=v was loaded: k=v went neither to the root nor to s
LoadedLineAfterInvalidHeader ==
    /\ last.op = "LoadFromFile" /\ last.status = "ok"
    /\ last.file.content = JoinWith(<< <<"[", "s", "]">>, <<"[", ";", "]">>, <<"k", "=", "v">> >>, <<"\n">>)
    /\ data = <<"s">> :> MapV(EmptyMap)

-----------------------------------------------------------------------------
(* Sections of INI files read back: C21 *)

\* the getter of the value's type, called on key, returns the value
ReadsBack(c, key, value) ==
    CASE value.t = "string" -> GetString(c, key, <<>>) = value.v
      [] value.t \in {"int", "int64"} -> GetInt(c, key, <<>>) = value.v
      [] value.t = "float64" -> GetFloat64(c, key, <<>>) = value.v
      [] value.t = "bool" -> GetBool(c, key, <<>>) = value.v
      [] value.t = "[]string" -> GetStringSlice(c, key, <<>>) = Slice(value.v)
      [] OTHER -> TRUE

\* C21: after the load of an INI file, for every section s of the result and
\* every key k stored under it, Has(s.k) is true and the getter of the value's
\* type on s.k returns the parsed value; a key stored at the root is read by its
\* bare name.
SectionKeysReadBack ==
    (last.op = "LoadFromFile" /\ last.status = "ok")
        => \A s \in DOMAIN data :
              IF data[s].t = "map"
              THEN \A k \in DOMAIN data[s].v :
                      /\ Has(Receiver, s \o <<".">> \o k)
                      /\ ReadsBack(Receiver, s \o <<".">> \o k, data[s].v[k])
              ELSE Has(Receiver, s) /\ ReadsBack(Receiver, s, data[s])

-----------------------------------------------------------------------------
(* Continued lines of INI files: C22, C27 and C28 *)

EndsInBackslash(line) == HasSuffix(TrimSpace(line), "\\")

\* the text ends in an escaped backslash: two backslashes
EndsInEscapedBackslash(line) ==
    /\ Len(TrimSpace(line)) >= 2
    /\ SubSeq(TrimSpace(line), Len(TrimSpace(line)) - 1, Len(TrimSpace(line))) = <<"\\", "\\">>

\* the line at i joined with the trimmed lines after it, one space between two
\* lines, while the text ends in a backslash and a line remains
RECURSIVE JoinedFrom(_, _, _)
JoinedFrom(lines, i, text) ==
    IF EndsInBackslash(text) /\ i < Len(lines)
    THEN JoinedFrom(lines, i + 1,
                    TrimSpace(SubSeq(TrimSpace(text), 1, Len(TrimSpace(text)) - 1))
                        \o <<" ">> \o TrimSpace(lines[i + 1]))
    ELSE text

\* the key and the value of a key/value line
KeyOf(text) == TrimSpace(Cut(removeInlineComments(TrimSpace(text)), "=").before)
ValueOf(text) == processINIValue(TrimSpace(Cut(removeInlineComments(TrimSpace(text)), "=").after))

EscapedBackslashDoesNotContinue ==
    [][ (ini'.i = ini.i + 1 /\ EndsInEscapedBackslash(ini.lines[ini.i]))
        => ini'.st = ParseLine(<<ini.lines[ini.i]>>, 1, ini.st) ]_vars

\* C28: every line contributes to at most one logical line: the iteration on a
\* line that the line before it took as its continuation changes neither the
\* result nor the active section.
ConsumedLinesAreNotParsedAgain ==
    [][ ( /\ ini'.i = ini.i + 1
          /\ ini.i > 1
          /\ EndsInBackslash(ini.lines[ini.i - 1])
          /\ \A j \in 1..Len(ini.lines) : ~EndsInEscapedBackslash(ini.lines[j]) )
        => ini'.st = ini.st ]_vars

-----------------------------------------------------------------------------
(* The global instance: C23 *)

\* C23: under every interleaving of first calls to the package-level functions
\* the global Config is built exactly once, every caller calls its method on that
\* one instance, no caller reaches globalConfig before it is built and assigned,
\* and no interleaving stops before every caller is done.
GlobalBuiltOnce ==
    /\ global.built <= 1
    /\ \A r \in Callers : rpc[r] = "use" => (global.built = 1 /\ global.config = 1)
    /\ \A r \in Callers : rpc[r] = "done" => rres[r] = 1
    /\ (\A r \in Callers : rpc[r] = "done") \/ ENABLED OnceNext

\* one caller is done with the instance while another has yet to load done and
\* a third waits for the mutex of the Once
CallersAtAllStages ==
    /\ global.built = 1
    /\ \E r \in Callers : rpc[r] = "done" /\ rres[r] = 1
    /\ \E r \in Callers : rpc[r] = "idle"
    /\ \E r \in Callers : rpc[r] = "lock"

-----------------------------------------------------------------------------
(* The order of the steps of a load: C24 *)

\* the steps of the load call up to the callback came in the order parse, defaults,
\* environment, required keys, callback: every default key is in the tree the
\* defaults leave, the overlay is made on that tree, the required keys are looked
\* up in the tree the overlay leaves, and the callback runs when none is missing
StepsInOrder(call) ==
    LET missing == {i \in DOMAIN call.opts.RequiredKeys :
                        ~Has(Config(FALSE, call.merged, FALSE), call.opts.RequiredKeys[i])}
    IN  /\ \A key \in DOMAIN call.opts.DefaultValues :
                Has(Config(FALSE, call.afterDefaults, FALSE), key)
        /\ DOMAIN call.merged = DOMAIN call.afterDefaults
        /\ \A key \in DOMAIN call.afterDefaults :
                call.merged[key] =
                    IF ~call.opts.IgnoreEnv /\ Getenv(call.env, key) # <<>>
                    THEN StringV(Getenv(call.env, key))
                    ELSE call.afterDefaults[key]
        /\ (call.status = "ErrRequiredKeyMissing") <=> (missing # {})
        /\ call.validated <=> (missing = {} /\ call.opts.ValidationFunc # "nil")

\* C24: LoadFromFile makes its steps in the order parse, defaults, environment,
\* required keys, validation callback, commit: a required key that only the
\* defaults supply passes the check, a top-level key a default inserted takes the
\* content of the environment variable of its name, the callback is not invoked when
\* a required key is missing, the callback sees the defaults and the environment
\* overrides, and the store is written last, when every step before has succeeded.
LoadStepsEndWithCommit ==
    [][ ( /\ last'.op = "LoadFromFile"
          /\ ~isNil
          /\ Decodes(last')
          /\ last'.status # "panic" )
        => ( /\ StepsInOrder(last')
             /\ data' = IF last'.status = "ok" THEN last'.merged ELSE data ) ]_vars

-----------------------------------------------------------------------------
(* The type of an INI value: C25 and C26 *)

IsQuoted(value) ==
    /\ Len(value) >= 2
    /\ \/ value[1] = "\"" /\ value[Len(value)] = "\""
       \/ value[1] = "'" /\ value[Len(value)] = "'"

TrueWords == {<<"t","r","u","e">>, <<"y","e","s">>, <<"o","n">>, <<"1">>}
FalseWords == {<<"f","a","l","s","e">>, <<"n","o">>, <<"o","f","f">>, <<"0">>}

IsBoolWord(value) == ToLower(value) \in TrueWords \cup FalseWords

\* the trimmed parts of a comma-separated value that are not empty
TrimmedParts(value) ==
    LET kept == SelectSeq(Split(value, ","), LAMBDA part : TrimSpace(part) # <<>>)
    IN  [i \in 1..Len(kept) |-> processEscapeSequences(TrimSpace(kept[i]))]

IsList(value) == Contains(value, ",") /\ Len(TrimmedParts(value)) > 1

\* C25: processINIValue gives a value the type of the first rule that matches it,
\* in the order quoted string (quotes stripped), boolean word in any case, base-10
\* integer, float, comma list of more than one non-empty trimmed part, string; so
\* the bare literals 0 and 1 are booleans and a quoted "42" or "true" is a string.
FirstMatchingRuleTypesValue ==
    last.op = "processINIValue" =>
        LET value == last.key
            res == last.res
        IN  /\ IsQuoted(value)
                => res = StringV(processEscapeSequences(SubSeq(value, 2, Len(value) - 1)))
            /\ (~IsQuoted(value) /\ IsBoolWord(value))
                => res = BoolV(ToLower(value) \in TrueWords)
            /\ (~IsQuoted(value) /\ ~IsBoolWord(value) /\ ParseInt(value).ok)
                => (res.t \in {"int", "int64"} /\ res.v = ParseInt(value).n)
            /\ (~IsQuoted(value) /\ ~IsBoolWord(value) /\ ~ParseInt(value).ok
                    /\ ParseFloat(value).ok)
                => res = FloatV(ParseFloat(value).f)
            /\ (~IsQuoted(value) /\ ~IsBoolWord(value) /\ ~ParseInt(value).ok
                    /\ ~ParseFloat(value).ok /\ IsList(value))
                => res = SliceV(TrimmedParts(value))
            /\ (~IsQuoted(value) /\ ~IsBoolWord(value) /\ ~ParseInt(value).ok
                    /\ ~ParseFloat(value).ok /\ ~IsList(value))
                => res = StringV(processEscapeSequences(value))
            /\ value = <<"1">> => res = BoolV(TRUE)
            /\ value = <<"0">> => res = BoolV(FALSE)
            /\ value = <<"\"", "4", "2", "\"">> => res = StringV(<<"4", "2">>)
            /\ value = <<"\"", "t", "r", "u", "e", "\"">> => res = StringV(<<"t", "r", "u", "e">>)

\* the bare literal 1 was typed: it is a boolean
TypedBareOne ==
    /\ last.op = "processINIValue"
    /\ last.key = <<"1">>
    /\ last.res = BoolV(TRUE)

\* C26: an integer literal n with minInt <= n <= maxInt, both bounds included,
\* comes out of processINIValue as a native int, and as an int64 only when n is
\* beyond that range.
IntWidthFollowsRange ==
    ( /\ last.op = "processINIValue"
      /\ ~IsQuoted(last.key)
      /\ ~IsBoolWord(last.key)
      /\ ParseInt(last.key).ok )
    => LET n == ParseInt(last.key).n
       IN  last.res = IF (0 - MaxInt) - 1 <= n /\ n <= MaxInt THEN IntV(n) ELSE Int64V(n)

-----------------------------------------------------------------------------
(* The order in which the defaults are visited: C29 *)

\* C29: the content the defaults leave, in SetNestedDefaults and in the defaults
\* step of LoadFromFile, depends on the prior content and on the defaults map
\* alone: every order in which the range statement can visit the entries gives the
\* same content, also with an entry for a and an entry for a.b in the map.
DefaultsIgnoreRangeOrder ==
    [][ /\ ( /\ last'.op = "SetNestedDefaults"
             /\ ~isNil
             /\ ~dataNil )
            => \A order \in RangeOrders(last'.arg) :
                    data' = ApplyDefaultsInOrder(data, last'.arg, order)
        /\ ( /\ last'.op = "LoadFromFile"
             /\ ~isNil
             /\ Decodes(last')
             /\ last'.status # "panic" )
            => \A order \in RangeOrders(last'.arg) :
                    last'.afterDefaults = ApplyDefaultsInOrder(last'.parsed, last'.arg, order) ]_vars

-----------------------------------------------------------------------------
(* The data map of a Config made by New: C30 *)

\* C30: the data map of a Config made by New is non-nil in every reachable state,
\* also after a LoadFromFile of a JSON or YAML document that decodes to no mapping,
\* so that no later write to it (Set, SetNestedDefaults, LoadFromMap, the defaults
\* step of a load) fails on a nil map.
DataMapIsNeverNil ==
    ~isNil => (~dataNil /\ last.status # "panic")

====
